---- MODULE Spec2Model ----
(***************************************************************************)
(* Batch retrieval and tiered storage of khanduudon/vh:                    *)
(*   bot/extractor.py      the Resilient Fetcher (retry wrapper and the    *)
(*                         three remote operations),                       *)
(*   bot/database.py       the Metadata Store and the Blob Store (GridFS), *)
(*   bot/batch_service.py  the TTL disk cache and the Batch Orchestrator.  *)
(* Handlers are synchronous; each action below is one whole handler call.  *)
(***************************************************************************)
EXTENDS Integers, Sequences, FiniteSets, TLC

(* ------------------------------ bounds -------------------------------- *)
\* longest remote batch list the model enumerates
MaxList == 2
\* number of orchestrator calls in one behaviour
MaxCalls == 3
\* number of bulk downloads in one behaviour (SpecBulk)
MaxBulkCalls == 2
\* number of clock advances in one behaviour
MaxTicks == 2
\* number of direct Blob Store calls in one behaviour (SpecBlob)
MaxBlobCalls == 4
\* cache calls of one behaviour when the cache is called directly
MaxCacheCalls == 3
\* adapter calls of one behaviour when the Database adapter is called directly
MaxStoreCalls == 3
\* concurrent callers of download_batch_file (SpecRace)
MaxCallers == 2
\* listings made before the concurrent downloads start (SpecRace)
MaxListings == 1

(* -------------------------- program constants ------------------------- *)
MAX_RETRIES == 3
RETRY_BACKOFF_FACTOR == 2
CACHE_TTL == 3600
DEFAULT_RETRY_AFTER == 60

(* ------------------------------ universe ------------------------------ *)
OrgCodes == {"ORG1", "ORG2"}
\* org codes a caller may pass that are not well formed: empty, too short,
\* with a character that is not alphanumeric, with a trailing newline
Malformed == {"", "AB", "OR-1", "ORG1\n"}
\* the characters of each org code
OrgCodeChars ==
    [c \in OrgCodes \cup Malformed |->
        CASE c = "ORG1" -> <<"O", "R", "G", "1">>
          [] c = "ORG2" -> <<"O", "R", "G", "2">>
          [] c = "" -> <<>>
          [] c = "AB" -> <<"A", "B">>
          [] c = "OR-1" -> <<"O", "R", "-", "1">>
          [] c = "ORG1\n" -> <<"O", "R", "G", "1", "\n">>]
BatchIds == {"b1", "b2"}
\* byte strings served by the remote; <<>> is the empty body
Payloads == {<<>>, <<7>>, <<8, 9>>}
\* UTC offsets (seconds) of the zone the process runs in
TzOffsets == {0, 19800, -18000}

VARIABLES
    org_codes,      \* Metadata Store: org code -> Organization Record
    batch_files,    \* Metadata Store: batch id -> Batch Record
    fs,             \* Blob Store (GridFS): file id -> bytes
    next_file_id,   \* the next ObjectId GridFS hands out
    cache,          \* cache directory: batch id -> [data, mtime]
    now,            \* the epoch clock (seconds)
    tz,             \* UTC offset of the local zone
    cache_enabled,  \* config.CACHE_ENABLED
    calls,          \* orchestrator calls made so far
    ticks,          \* clock advances made so far
    last,           \* record of the latest orchestrator / Blob Store call
    got,            \* batch id -> content the latest successful download returned
    fx,             \* record of the latest Fetcher call
    callers         \* concurrent download_batch_file calls: where each one is

vars == <<org_codes, batch_files, fs, next_file_id, cache, now, tz,
          cache_enabled, calls, ticks, last, got, fx, callers>>

(* ============================== Fetcher =============================== *)
\* headers.get('Retry-After'): absent, or the header's text as characters
NoHeader == [present |-> FALSE, text |-> <<>>]
Header(t) == [present |-> TRUE, text |-> t]
RetryAfterHeaders ==
    {NoHeader, Header(<<"3", "0">>), Header(<<"0">>), Header(<<"W", "e", "d">>)}

Digits == {"0", "1", "2", "3", "4", "5", "6", "7", "8", "9"}
DigitVal(c) ==
    CASE c = "0" -> 0 [] c = "1" -> 1 [] c = "2" -> 2 [] c = "3" -> 3
      [] c = "4" -> 4 [] c = "5" -> 5 [] c = "6" -> 6 [] c = "7" -> 7
      [] c = "8" -> 8 [] c = "9" -> 9

RECURSIVE DecimalValue(_)
DecimalValue(t) ==
    IF t = <<>> THEN 0
    ELSE 10 * DecimalValue(SubSeq(t, 1, Len(t) - 1)) + DigitVal(t[Len(t)])

\* int(text): the value of a decimal numeral, ValueError for any other text
IntParses(t) == t # <<>> /\ \A i \in 1..Len(t) : t[i] \in Digits
int(t) == DecimalValue(t)

\* response bodies: JSON objects of the listing endpoints, raw chunks, or text
\* that is no JSON
Body(json, fields, batches, url, chunks) ==
    [json |-> json, fields |-> fields, batches |-> batches,
     chunks |-> chunks, download_url |-> url]
NoBody == Body(FALSE, {}, <<>>, <<>>, <<>>)
ListBody(l) == Body(TRUE, {"batches"}, l, <<>>, <<>>)
UrlBody(u) == Body(TRUE, {"download_url"}, <<>>, u, <<>>)
EmptyObject == Body(TRUE, {}, <<>>, <<>>, <<>>)
ContentBody(chunks) == Body(FALSE, {}, <<>>, <<>>, chunks)

\* what the remote does with one request: no answer (timeout, connection
\* error) or an HTTP response
Reply(kind, status, header, body) ==
    [kind |-> kind, status |-> status, body |-> body, retry_after |-> header]
Timeout == Reply("Timeout", 0, NoHeader, NoBody)
ConnectionError == Reply("ConnectionError", 0, NoHeader, NoBody)
Http(status) == Reply("http", status, NoHeader, NoBody)
Ok(body) == Reply("http", 200, NoHeader, body)
TooMany(header) == Reply("http", 429, header, NoBody)
NoReply == Reply("none", 0, NoHeader, NoBody)

\* the remote's batch descriptors
Descriptor(b) == [batch_id |-> b]
RECURSIVE SeqsUpTo(_, _)
SeqsUpTo(S, n) ==
    IF n = 0 THEN {<<>>}
    ELSE LET shorter == SeqsUpTo(S, n - 1)
         IN  shorter \cup {Append(s, x) : s \in {t \in shorter : Len(t) = n - 1}, x \in S}
\* every batch list of at most MaxList descriptors
RemoteLists == SeqsUpTo({Descriptor(b) : b \in BatchIds}, MaxList)
\* the batch lists that name no batch twice, in one order
PlainLists == {<<>>, <<Descriptor("b1")>>, <<Descriptor("b2")>>,
               <<Descriptor("b1"), Descriptor("b2")>>}

\* URLs
ListUrl(org) == <<"api", "org", org, "batches">>
DownloadApiUrl(org, b) == <<"api", "org", org, "batch", b, "download">>
FileUrl(b) == <<"cdn", b>>

\* an outcome of a Fetcher call: a value, or the exception raised
Outcome(raised, value, requests, waits, retry_after, url, reason) ==
    [raised |-> raised, value |-> value, requests |-> requests, waits |-> waits,
     retry_after |-> retry_after, url |-> url, reason |-> reason]

\* requests.exceptions.RequestException: what session.request raises on no
\* answer, and what raise_for_status raises on a 4xx/5xx status
IsRequestException(r) ==
    \/ r.kind \in {"Timeout", "ConnectionError"}
    \/ r.kind = "http" /\ r.status >= 400 /\ r.status < 600
Cause(r) == IF r.kind = "http" THEN <<"HTTPError", r.status>> ELSE <<r.kind, 0>>

RECURSIVE Power(_, _)
Power(b, e) == IF e = 0 THEN 1 ELSE b * Power(b, e - 1)

\* the retry loop sleeping after the final failed attempt as well
RECURSIVE retry_loop_sleeping_last(_, _, _, _)
retry_loop_sleeping_last(url, script, attempt, waits) ==
    IF attempt >= MAX_RETRIES
    THEN Outcome("DownloadFailedError", NoReply, attempt, waits, 0, url, <<"Max retries exceeded", 0>>)
    ELSE LET r == script[attempt + 1] IN
         IF r.kind = "http" /\ r.status = 429
         THEN IF ~r.retry_after.present
              THEN Outcome("RateLimitExceededError", NoReply, attempt + 1, waits, DEFAULT_RETRY_AFTER, url, <<"429", 0>>)
              ELSE IF IntParses(r.retry_after.text)
              THEN Outcome("RateLimitExceededError", NoReply, attempt + 1, waits, int(r.retry_after.text), url, <<"429", 0>>)
              ELSE Outcome("ValueError", NoReply, attempt + 1, waits, 0, url, <<"invalid literal for int()", 0>>)
         ELSE IF IsRequestException(r)
         THEN IF attempt < MAX_RETRIES - 1
              THEN retry_loop_sleeping_last(url, script, attempt + 1, Append(waits, Power(RETRY_BACKOFF_FACTOR, attempt)))
              ELSE Outcome("DownloadFailedError", NoReply, attempt + 1,
                           Append(waits, Power(RETRY_BACKOFF_FACTOR, attempt)), 0, url, Cause(r))
         ELSE Outcome("", r, attempt + 1, waits, 0, url, <<"", 0>>)

\* _make_request, iteration `attempt` of its loop; script[attempt + 1] is the
\* remote's reply to this request, waits the sleeps made so far
RECURSIVE retry_loop(_, _, _, _)
retry_loop(url, script, attempt, waits) ==
    IF attempt >= MAX_RETRIES
    THEN Outcome("DownloadFailedError", NoReply, attempt, waits, 0, url,
                 <<"Max retries exceeded", 0>>)
    ELSE LET r == script[attempt + 1] IN
         IF r.kind = "http" /\ r.status = 429
         THEN IF ~r.retry_after.present
              THEN Outcome("RateLimitExceededError", NoReply, attempt + 1, waits,
                           DEFAULT_RETRY_AFTER, url, <<"429", 0>>)
              ELSE IF IntParses(r.retry_after.text)
              THEN Outcome("RateLimitExceededError", NoReply, attempt + 1, waits,
                           int(r.retry_after.text), url, <<"429", 0>>)
              ELSE Outcome("ValueError", NoReply, attempt + 1, waits, 0, url,
                           <<"invalid literal for int()", 0>>)
         ELSE IF IsRequestException(r)
         THEN IF attempt < MAX_RETRIES - 1
              THEN retry_loop(url, script, attempt + 1,
                              Append(waits, Power(RETRY_BACKOFF_FACTOR, attempt)))
              ELSE Outcome("DownloadFailedError", NoReply, attempt + 1, waits, 0,
                           url, Cause(r))
         ELSE Outcome("", r, attempt + 1, waits, 0, url, <<"", 0>>)

make_request(url, script) == retry_loop(url, script, 0, <<>>)

Raise(o, error) ==
    Outcome(error, <<>>, o.requests, o.waits, o.retry_after, o.url, o.reason)
Return(o, v) ==
    Outcome(o.raised, v, o.requests, o.waits, o.retry_after, o.url, o.reason)

\* fetch_org_batches taking a body without `batches` for an empty list
fetch_org_batches_lenient(org_code, script) ==
    LET o == make_request(ListUrl(org_code), script) IN
    IF o.raised # "" THEN Raise(o, o.raised)
    ELSE LET data == o.value.body IN
         IF ~data.json THEN Raise(o, "JSONDecodeError")
         ELSE IF data.fields = {} \/ "batches" \notin data.fields
         THEN Return(o, <<>>)
         ELSE Return(o, data.batches)

\* fetch_org_batches: its except clause catches requests' HTTPError only
fetch_org_batches(org_code, script) ==
    LET o == make_request(ListUrl(org_code), script) IN
    IF o.raised = "HTTPError"
    THEN IF o.value.status = 404
         THEN Raise(o, "OrgCodeNotFoundError")
         ELSE Raise(o, "DownloadFailedError")
    ELSE IF o.raised # "" THEN Raise(o, o.raised)
    ELSE LET data == o.value.body IN
         IF ~data.json THEN Raise(o, "JSONDecodeError")
         ELSE IF data.fields = {} \/ "batches" \notin data.fields
         THEN Raise(o, "OrgCodeNotFoundError")
         ELSE Return(o, data.batches)

\* fetch_batch_file_url
fetch_batch_file_url(batch_id, org_code, script) ==
    LET o == make_request(DownloadApiUrl(org_code, batch_id), script) IN
    IF o.raised = "HTTPError" THEN Raise(o, "DownloadFailedError")
    ELSE IF o.raised # "" THEN Raise(o, o.raised)
    ELSE LET data == o.value.body IN
         IF ~data.json THEN Raise(o, "JSONDecodeError")
         ELSE IF "download_url" \notin data.fields THEN Raise(o, "ParseError")
         ELSE Return(o, data.download_url)

RECURSIVE JoinChunks(_)
JoinChunks(chunks) ==
    IF chunks = <<>> THEN <<>>
    ELSE Head(chunks) \o JoinChunks(Tail(chunks))

\* download_batch_content: every exception leaves as DownloadFailedError
download_batch_content(url, script) ==
    LET o == make_request(url, script) IN
    IF o.raised # "" THEN Raise(o, "DownloadFailedError")
    ELSE Return(o, JoinChunks(o.value.body.chunks))


(* ======================= Metadata Store, Blob Store =================== *)
None == <<>>
Some(x) == <<x>>
\* Python truthiness of an optional bytes / str value
Truthy(opt) == opt # None /\ opt[1] # <<>>

\* the mutable world a handler works on; log is the trace of the store and
\* Fetcher calls the handler made, down the adapter calls <<operation, key>>
\* that MongoDB answers with a PyMongoError while the handler runs, exc the
\* exception on its way out of the handler ("" when none)
World == [org_codes |-> org_codes, batch_files |-> batch_files, fs |-> fs,
          next_file_id |-> next_file_id, cache |-> cache, log |-> <<>>,
          down |-> {}, exc |-> ""]
Event(name, arg) == [call |-> name, arg |-> arg]
Raised(w) == w.exc # ""
\* nothing after a raise is executed
Logged(w, name, arg) ==
    IF Raised(w) THEN w ELSE [w EXCEPT !.log = Append(@, Event(name, arg))]
Fails(w, op, key) == <<op, key>> \in w.down
\* except PyMongoError as e: raise StorageError(op, str(e))
ThrowBecause(w, op, cause) ==
    [w EXCEPT !.log = Append(@, Event("raise", <<"StorageError", op, cause>>)),
              !.exc = "StorageError"]
Throw(w, op) == ThrowBecause(w, op, "PyMongoError")
\* an exception that is not a StorageError leaving the operation op
Crash(w, error, op) ==
    [w EXCEPT !.log = Append(@, Event("raise", <<error, op, error>>)), !.exc = error]
\* an except clause of a handler catching the exception
Caught(w) == [w EXCEPT !.exc = ""]
\* except Exception as e: raise StorageError(op, str(e))
Rethrow(w, op) == IF Raised(w) THEN Throw(Caught(w), op) ELSE w

SelectIndex(docs, key, v) == {i \in 1..Len(docs) : docs[i][key] = v}
FirstIndex(S) == CHOOSE i \in S : \A j \in S : i <= j
RECURSIVE Without(_, _, _)
Without(docs, key, v) ==
    IF docs = <<>> THEN <<>>
    ELSE IF Head(docs)[key] = v THEN Without(Tail(docs), key, v)
    ELSE <<Head(docs)>> \o Without(Tail(docs), key, v)
Filter(docs, key, v) == SelectSeq(docs, LAMBDA d : d[key] = v)

OrgCode(org_code, org_name, batch_count) ==
    [org_code |-> org_code, org_name |-> org_name, batch_count |-> batch_count,
     updated_at |-> now]
BatchFile(batch_id, org_code) ==
    [batch_id |-> batch_id, org_code |-> org_code, file_size |-> 0,
     file_id |-> None, downloaded_at |-> None]

\* find_one({"org_code": ...}): None or Some(document)
\* get_org_code raises StorageError on a PyMongoError: trying_get_org_code is
\* the world after the call, get_org_code the value it returns
trying_get_org_code(w, org_code) ==
    IF Raised(w) THEN w
    ELSE IF Fails(w, "get_org_code", org_code) THEN Throw(w, "get_org_code")
    ELSE w
get_org_code(w, org_code) ==
    LET S == SelectIndex(w.org_codes, "org_code", org_code) IN
    IF S = {} THEN None ELSE Some(w.org_codes[FirstIndex(S)])
create_org_code(w, org) ==
    IF Raised(w) THEN w
    ELSE IF Fails(w, "create_org_code", org.org_code) THEN Throw(w, "create_org_code")
    \* the unique index on org_code
    ELSE IF SelectIndex(w.org_codes, "org_code", org.org_code) # {}
    THEN ThrowBecause(w, "create_org_code", "DuplicateKeyError")
    ELSE [w EXCEPT !.org_codes = Append(@, org)]
update_org_code(w, org_code, batch_count) ==
    LET S == SelectIndex(w.org_codes, "org_code", org_code) IN
    IF Raised(w) THEN w
    ELSE IF Fails(w, "update_org_code", org_code) THEN Throw(w, "update_org_code")
    ELSE IF S = {} THEN w
    ELSE [w EXCEPT !.org_codes[FirstIndex(S)].batch_count = batch_count,
                   !.org_codes[FirstIndex(S)].updated_at = now]
delete_org_code(w, org_code) ==
    LET S == SelectIndex(w.org_codes, "org_code", org_code) IN
    IF Raised(w) THEN w
    ELSE IF Fails(w, "delete_org_code", org_code) THEN Throw(w, "delete_org_code")
    ELSE IF S = {} THEN w
    ELSE [w EXCEPT !.org_codes =
              SubSeq(@, 1, FirstIndex(S) - 1) \o SubSeq(@, FirstIndex(S) + 1, Len(@))]

\* get_batch_file: on a PyMongoError it logs and returns None
get_batch_file(w, batch_id) ==
    LET S == SelectIndex(w.batch_files, "batch_id", batch_id) IN
    IF Fails(w, "get_batch_file", batch_id) THEN None
    ELSE IF S = {} THEN None ELSE Some(w.batch_files[FirstIndex(S)])
\* the insert into a collection that has no unique index on batch_id
create_batch_file_unindexed(w, batch_file) ==
    IF Raised(w) THEN w
    ELSE IF Fails(w, "create_batch_file", batch_file.batch_id)
    THEN Throw(w, "create_batch_file")
    ELSE [w EXCEPT !.batch_files = Append(@, batch_file)]
create_batch_file(w, batch_file) ==
    IF Raised(w) THEN w
    ELSE IF Fails(w, "create_batch_file", batch_file.batch_id)
    THEN Throw(w, "create_batch_file")
    \* the unique index on batch_id
    ELSE IF SelectIndex(w.batch_files, "batch_id", batch_file.batch_id) # {}
    THEN ThrowBecause(w, "create_batch_file", "DuplicateKeyError")
    ELSE [w EXCEPT !.batch_files = Append(@, batch_file)]
\* get_batches_by_org_code: on a PyMongoError it logs and returns []
get_batches_by_org_code(w, org_code) ==
    IF Fails(w, "get_batches_by_org_code", org_code) THEN <<>>
    ELSE Filter(w.batch_files, "org_code", org_code)
\* update_one($set file_id, file_size, downloaded_at)
\* {"$set": updates}: the named fields take the given values, the document
\* keeps every other field
Set(doc, updates) ==
    [f \in DOMAIN doc \cup DOMAIN updates |->
        IF f \in DOMAIN updates THEN updates[f] ELSE doc[f]]
\* the update writing a whole document: fields it does not name are reset
update_batch_file_replacing(w, batch_id, updates) ==
    LET S == SelectIndex(w.batch_files, "batch_id", batch_id) IN
    IF Raised(w) THEN w
    ELSE IF Fails(w, "update_batch_file", batch_id) THEN Throw(w, "update_batch_file")
    ELSE IF S = {} THEN w
    ELSE Logged([w EXCEPT !.batch_files[FirstIndex(S)] =
                              Set(BatchFile(batch_id, @.org_code), updates)],
                "update_batch_file", batch_id)
\* update_one({"batch_id": batch_id}, {"$set": updates})
update_batch_file(w, batch_id, updates) ==
    LET S == SelectIndex(w.batch_files, "batch_id", batch_id) IN
    IF Raised(w) THEN w
    ELSE IF Fails(w, "update_batch_file", batch_id) THEN Throw(w, "update_batch_file")
    ELSE IF S = {} THEN w
    ELSE Logged([w EXCEPT !.batch_files[FirstIndex(S)] = Set(@, updates)],
                "update_batch_file", batch_id)
\* delete_one({"batch_id": batch_id})
delete_batch_file(w, batch_id) ==
    LET S == SelectIndex(w.batch_files, "batch_id", batch_id) IN
    IF Raised(w) THEN w
    ELSE IF Fails(w, "delete_batch_file", batch_id) THEN Throw(w, "delete_batch_file")
    ELSE IF S = {} THEN w
    ELSE [w EXCEPT !.batch_files =
              SubSeq(@, 1, FirstIndex(S) - 1) \o SubSeq(@, FirstIndex(S) + 1, Len(@))]
delete_batches_by_org_code(w, org_code) ==
    IF Raised(w) THEN w
    ELSE IF Fails(w, "delete_batches_by_org_code", org_code)
    THEN Throw(w, "delete_batches_by_org_code")
    ELSE [w EXCEPT !.batch_files = Without(@, "org_code", org_code)]

\* GridFS. str(ObjectId) of the n-th stored file; any other text is no ObjectId
Oid(n) == <<"oid", n>>
JunkId == <<"junk">>
IsObjectId(file_id) == Len(file_id) = 2 /\ file_id[1] = "oid"
Holds(w, file_id) == IsObjectId(file_id) /\ file_id \in DOMAIN w.fs

\* store_file handing out the same id for every file
store_file_reusing_id(w, file_data) ==
    LET id == Oid(1) IN
    [w |-> Logged([w EXCEPT !.fs = [k \in DOMAIN @ \cup {id} |->
                                        IF k = id THEN file_data ELSE @[k]],
                            !.next_file_id = @ + 1],
                  "store_file", id),
     id |-> id]

\* store_file: [w, id] with the new file's id; GridFS calls are keyed ""
store_file(w, file_data) ==
    LET id == Oid(w.next_file_id) IN
    IF Raised(w) THEN [w |-> w, id |-> id]
    ELSE IF Fails(w, "store_file", "") THEN [w |-> Throw(w, "store_file"), id |-> id]
    ELSE
    [w |-> Logged([w EXCEPT !.fs = [k \in DOMAIN @ \cup {id} |->
                                        IF k = id THEN file_data ELSE @[k]],
                            !.next_file_id = @ + 1],
                  "store_file", id),
     id |-> id]
\* get_file: None on NoFile and on any other exception
get_file(w, file_id) ==
    IF Fails(w, "get_file", "") THEN None
    ELSE IF Holds(w, file_id) THEN Some(w.fs[file_id]) ELSE None
\* delete_file: [w, ok]; GridFS deletes nothing when the id names no file;
\* False on any exception
delete_file(w, file_id) ==
    IF Raised(w) \/ Fails(w, "delete_file", "") \/ ~IsObjectId(file_id)
    THEN [w |-> w, ok |-> FALSE]
    ELSE [w |-> Logged([w EXCEPT !.fs = [k \in DOMAIN @ \ {file_id} |-> @[k]]],
                       "delete_file", file_id),
          ok |-> TRUE]
\* file_exists: False on any exception
file_exists(w, file_id) == ~Fails(w, "file_exists", "") /\ Holds(w, file_id)

(* ============================ TTL disk cache ========================== *)
\* datetime.utcnow().timestamp(): the UTC wall clock read as local time
utcnow_timestamp == now - tz

\* _get_from_cache: [w, data] with data None or Some(bytes)
get_from_cache(w, batch_id) ==
    IF Raised(w) \/ ~cache_enabled THEN [w |-> w, data |-> None]
    ELSE IF batch_id \in DOMAIN w.cache
    THEN LET age == utcnow_timestamp - w.cache[batch_id].mtime IN
         IF age < CACHE_TTL
         THEN [w |-> w, data |-> Some(w.cache[batch_id].data)]
         ELSE [w |-> Logged([w EXCEPT !.cache = [k \in DOMAIN @ \ {batch_id} |-> @[k]]],
                            "cache_unlink", batch_id),
               data |-> None]
    ELSE [w |-> w, data |-> None]

\* _save_to_cache writing whether or not the cache is enabled
save_to_cache_always(w, batch_id, file_data) ==
    IF Raised(w) THEN w
    ELSE Logged([w EXCEPT !.cache = [k \in DOMAIN @ \cup {batch_id} |->
                                         IF k = batch_id
                                         THEN [data |-> file_data, mtime |-> now]
                                         ELSE @[k]]],
                "save_to_cache", batch_id)
save_to_cache(w, batch_id, file_data) ==
    IF Raised(w) \/ ~cache_enabled THEN w
    ELSE Logged([w EXCEPT !.cache = [k \in DOMAIN @ \cup {batch_id} |->
                                         IF k = batch_id
                                         THEN [data |-> file_data, mtime |-> now]
                                         ELSE @[k]]],
                "save_to_cache", batch_id)

delete_from_cache(w, batch_id) ==
    IF Raised(w) \/ ~cache_enabled THEN w
    \* cache_path.unlink() raising an OSError
    ELSE IF batch_id \in DOMAIN w.cache /\ Fails(w, "cache_unlink", batch_id)
    THEN Crash(w, "OSError", "cache_unlink")
    ELSE IF batch_id \in DOMAIN w.cache
    THEN Logged([w EXCEPT !.cache = [k \in DOMAIN @ \ {batch_id} |-> @[k]]],
                "cache_unlink", batch_id)
    ELSE w


(* ========================== Batch Orchestrator ======================== *)
\* F applied to the value of a, computed once
Bind(a, F(_)) == CHOOSE r \in {F(x) : x \in {a}} : TRUE

\* what a handler hands back: the world it leaves, the exception it raised
\* ("" when it returned) and the value it returned
Result(w, raised, value) ==
    IF Raised(w) THEN [w |-> w, raised |-> w.exc, value |-> <<>>]
    ELSE [w |-> w, raised |-> raised, value |-> value]

\* the sync loop replacing the record of a batch that already has one
RECURSIVE store_metadata_overwriting(_, _, _, _)
store_metadata_overwriting(w, org_code, batch_data_list, batch_files_out) ==
    IF batch_data_list = <<>> THEN Result(w, "", batch_files_out)
    ELSE LET batch_file == BatchFile(Head(batch_data_list).batch_id, org_code)
             S == SelectIndex(w.batch_files, "batch_id", batch_file.batch_id)
             w1 == IF S = {}
                   THEN Logged(create_batch_file(w, batch_file),
                               "create_batch_file", batch_file.batch_id)
                   ELSE [w EXCEPT !.batch_files[FirstIndex(S)] = batch_file]
         IN  store_metadata_overwriting(w1, org_code, Tail(batch_data_list),
                                        Append(batch_files_out, batch_file))

\* the sync loop returning only the batches it inserted
RECURSIVE store_metadata_returning_new(_, _, _, _)
store_metadata_returning_new(w, org_code, batch_data_list, batch_files_out) ==
    IF batch_data_list = <<>> THEN Result(w, "", batch_files_out)
    ELSE LET batch_file == BatchFile(Head(batch_data_list).batch_id, org_code)
             existing == get_batch_file(w, batch_file.batch_id)
         IN  IF existing = None
             THEN store_metadata_returning_new(
                      Logged(create_batch_file(w, batch_file),
                             "create_batch_file", batch_file.batch_id),
                      org_code, Tail(batch_data_list),
                      Append(batch_files_out, batch_file))
             ELSE store_metadata_returning_new(w, org_code, Tail(batch_data_list),
                                               batch_files_out)

\* the loop of fetch_batches_by_org_code over batch_data_list: every
\* descriptor yields a new BatchFile object; only unknown ids are inserted
RECURSIVE store_metadata(_, _, _, _)
store_metadata(w, org_code, batch_data_list, batch_files_out) ==
    IF batch_data_list = <<>> THEN Result(w, "", batch_files_out)
    ELSE LET batch_file == BatchFile(Head(batch_data_list).batch_id, org_code)
             existing == get_batch_file(w, batch_file.batch_id)
             w1 == IF existing = None
                   THEN Logged(create_batch_file(w, batch_file),
                               "create_batch_file", batch_file.batch_id)
                   ELSE w
         IN  store_metadata(w1, org_code, Tail(batch_data_list),
                            Append(batch_files_out, batch_file))

\* the cache test of fetch_batches_by_org_code: `if cached_batches:`
cache_hit(cached_batches) == cached_batches # <<>>

\* utils.validate_org_code: "" when the code passes, else the error raised.
\* re.match(r'^[a-zA-Z0-9]{3,20}$', org_code): `$` also matches before one
\* trailing newline
Alnum ==
    {"A", "B", "C", "D", "E", "F", "G", "H", "I", "J", "K", "L", "M", "N", "O", "P",
     "Q", "R", "S", "T", "U", "V", "W", "X", "Y", "Z", "a", "b", "c", "d", "e", "f",
     "g", "h", "i", "j", "k", "l", "m", "n", "o", "p", "q", "r", "s", "t", "u", "v",
     "w", "x", "y", "z", "0", "1", "2", "3", "4", "5", "6", "7", "8", "9"}
Matches(chars) ==
    LET body == IF chars # <<>> /\ chars[Len(chars)] = "\n"
                THEN SubSeq(chars, 1, Len(chars) - 1) ELSE chars
    IN  /\ Len(body) \in 3..20
        /\ \A i \in 1..Len(body) : body[i] \in Alnum
validate_org_code(org_code) ==
    IF OrgCodeChars[org_code] = <<>> THEN "ValidationError"
    ELSE IF ~Matches(OrgCodeChars[org_code]) THEN "ValidationError"
    ELSE ""

\* the handler raising when its lookup of the org's records finds MongoDB down
fetch_batches_validated_failing_lookup(w, org_code, force_refresh, script) ==
    IF ~force_refresh /\ Fails(w, "get_batches_by_org_code", org_code)
    THEN Result(Throw(w, "get_batches_by_org_code"), "", <<>>)
    ELSE
    LET cached_batches == get_batches_by_org_code(w, org_code) IN
    IF ~force_refresh /\ cache_hit(cached_batches)
    THEN Result(w, "", cached_batches)
    ELSE LET o == fetch_org_batches(org_code, script)
             w1 == Logged(w, "fetch_org_batches", org_code)
         IN  IF o.raised # "" THEN Result(w1, o.raised, <<>>)
             ELSE LET batch_data_list == o.value
                      w1a == trying_get_org_code(w1, org_code)
                      org == get_org_code(w1a, org_code)
                      w2 == IF org = None
                            THEN Logged(create_org_code(w1a,
                                     OrgCode(org_code, org_code, Len(batch_data_list))),
                                     "create_org_code", org_code)
                            ELSE Logged(update_org_code(w1a, org_code, Len(batch_data_list)),
                                     "update_org_code", org_code)
                  IN  store_metadata(w2, org_code, batch_data_list, <<>>)

\* fetch_batches_by_org_code after its validate_org_code(org_code); script is
\* what the remote answers
fetch_batches_validated(w, org_code, force_refresh, script) ==
    LET cached_batches == get_batches_by_org_code(w, org_code) IN
    IF ~force_refresh /\ cache_hit(cached_batches)
    THEN Result(w, "", cached_batches)
    ELSE LET o == fetch_org_batches(org_code, script)
             w1 == Logged(w, "fetch_org_batches", org_code)
         IN  IF o.raised # "" THEN Result(w1, o.raised, <<>>)
             ELSE LET batch_data_list == o.value
                      w1a == trying_get_org_code(w1, org_code)
                      org == get_org_code(w1a, org_code)
                      w2 == IF org = None
                            THEN Logged(create_org_code(w1a,
                                     OrgCode(org_code, org_code, Len(batch_data_list))),
                                     "create_org_code", org_code)
                            ELSE Logged(update_org_code(w1a, org_code, Len(batch_data_list)),
                                     "update_org_code", org_code)
                  IN  store_metadata(w2, org_code, batch_data_list, <<>>)

fetch_batches_by_org_code(w, org_code, force_refresh, script) ==
    IF validate_org_code(org_code) # "" THEN Result(w, "ValidationError", <<>>)
    ELSE fetch_batches_validated(w, org_code, force_refresh, script)

\* the logger.info line of the tier a download is served from, with the bytes
\* returned; stored says a network download was put into GridFS
Served(w, batch_id, tier, file_data, stored) ==
    Logged(w, "served", [batch_id |-> batch_id, tier |-> tier, data |-> file_data,
                         stored |-> stored])

\* the network branch keeping an empty body as the file
download_from_network_keeping_empty(w, batch_id, org_code, batch_file, plan) ==
    LET u == fetch_batch_file_url(batch_id, org_code, plan.url)
        w1 == Logged(w, "fetch_batch_file_url", batch_id)
    IN  IF u.raised # "" THEN Result(w1, u.raised, <<>>)
        ELSE
        LET c == download_batch_content(u.value, plan.content)
            w2 == Logged(w1, "download_batch_content",
                         [url |-> u.value, raised |-> c.raised, data |-> c.value])
        IN  IF c.raised # "" THEN Result(w2, c.raised, <<>>)
            ELSE
            LET file_data == c.value
                st == store_file(w2, file_data)
                w3 == IF batch_file # None
                      THEN update_batch_file(st.w, batch_id,
                               [file_id |-> Some(st.id), file_size |-> Len(file_data),
                                downloaded_at |-> Some(now)])
                      ELSE w2
            IN  IF file_data = <<>>
                THEN Result(save_to_cache(w3, batch_id, file_data),
                            "DownloadFailedError", <<>>)
                ELSE Result(Served(save_to_cache(w3, batch_id, file_data), batch_id,
                                   "network", file_data, batch_file # None),
                            "", file_data)

\* the network branch pointing the record at a blob it never stores
download_from_network_skipping_put(w, batch_id, org_code, batch_file, plan) ==
    LET u == fetch_batch_file_url(batch_id, org_code, plan.url)
        w1 == Logged(w, "fetch_batch_file_url", batch_id)
    IN  IF u.raised # "" THEN Result(w1, u.raised, <<>>)
        ELSE
        LET c == download_batch_content(u.value, plan.content)
            w2 == Logged(w1, "download_batch_content",
                         [url |-> u.value, raised |-> c.raised, data |-> c.value])
        IN  IF c.raised # "" THEN Result(w2, c.raised, <<>>)
            ELSE IF c.value = <<>> THEN Result(w2, "DownloadFailedError", <<>>)
            ELSE
            LET file_data == c.value
                w3 == IF batch_file # None
                      THEN update_batch_file(w2, batch_id,
                               [file_id |-> Some(Oid(w2.next_file_id)),
                                file_size |-> Len(file_data),
                                downloaded_at |-> Some(now)])
                      ELSE w2
            IN  Result(Served(save_to_cache(w3, batch_id, file_data), batch_id,
                              "network", file_data, batch_file # None),
                       "", file_data)

\* the network branch populating the cache before it stores the file
download_from_network_caching_first(w, batch_id, org_code, batch_file, plan) ==
    LET u == fetch_batch_file_url(batch_id, org_code, plan.url)
        w1 == Logged(w, "fetch_batch_file_url", batch_id)
    IN  IF u.raised # "" THEN Result(w1, u.raised, <<>>)
        ELSE
        LET c == download_batch_content(u.value, plan.content)
            w2 == Logged(w1, "download_batch_content",
                         [url |-> u.value, raised |-> c.raised, data |-> c.value])
        IN  IF c.raised # "" THEN Result(w2, c.raised, <<>>)
            ELSE IF c.value = <<>> THEN Result(w2, "DownloadFailedError", <<>>)
            ELSE
            LET file_data == c.value
                wc == save_to_cache(w2, batch_id, file_data)
                st == store_file(wc, file_data)
                w3 == IF batch_file # None
                      THEN update_batch_file(st.w, batch_id,
                               [file_id |-> Some(st.id), file_size |-> Len(file_data),
                                downloaded_at |-> Some(now)])
                      ELSE wc
            IN  Result(Served(w3, batch_id, "network", file_data, batch_file # None),
                       "", file_data)

\* the network branch of download_batch_file; batch_file is the record read
\* before it (None or Some)
download_from_network(w, batch_id, org_code, batch_file, plan) ==
    LET u == fetch_batch_file_url(batch_id, org_code, plan.url)
        w1 == Logged(w, "fetch_batch_file_url", batch_id)
    IN  IF u.raised # "" THEN Result(w1, u.raised, <<>>)
        ELSE
        LET c == download_batch_content(u.value, plan.content)
            w2 == Logged(w1, "download_batch_content",
                         [url |-> u.value, raised |-> c.raised, data |-> c.value])
        IN  IF c.raised # "" THEN Result(w2, c.raised, <<>>)
            ELSE IF c.value = <<>> THEN Result(w2, "DownloadFailedError", <<>>)
            ELSE
            LET file_data == c.value
                st == store_file(w2, file_data)
                w3 == IF batch_file # None
                      THEN update_batch_file(st.w, batch_id,
                               [file_id |-> Some(st.id), file_size |-> Len(file_data),
                                downloaded_at |-> Some(now)])
                      ELSE w2
            IN  Result(Served(save_to_cache(w3, batch_id, file_data), batch_id,
                              "network", file_data, batch_file # None),
                       "", file_data)

\* download_batch_file: cache, then GridFS, then the network
download_batch_file(w, batch_id, org_code, plan) ==
    LET c == get_from_cache(w, batch_id) IN
    IF cache_enabled /\ Truthy(c.data)
    THEN Result(Served(c.w, batch_id, "cache", c.data[1], FALSE), "", c.data[1])
    ELSE
    LET w1 == c.w
        batch_file == get_batch_file(w1, batch_id)
        file_data == IF batch_file # None /\ Truthy(batch_file[1].file_id)
                     THEN get_file(w1, batch_file[1].file_id[1])
                     ELSE None
    IN  IF Truthy(file_data)
        THEN Result(save_to_cache(Served(w1, batch_id, "gridfs", file_data[1], FALSE),
                                  batch_id, file_data[1]),
                    "", file_data[1])
        ELSE download_from_network(w1, batch_id, org_code, batch_file, plan)

\* get_batch_file_from_storage: the cache, then GridFS; None or Some(bytes)
get_batch_file_from_storage(w, batch_id) ==
    LET c == get_from_cache(w, batch_id) IN
    IF cache_enabled /\ Truthy(c.data) THEN Result(c.w, "", c.data)
    ELSE
    LET batch_file == get_batch_file(c.w, batch_id) IN
    IF batch_file # None /\ Truthy(batch_file[1].file_id)
    THEN Result(c.w, "", get_file(c.w, batch_file[1].file_id[1]))
    ELSE Result(c.w, "", None)

DownloadProgress(total_files) ==
    [total_files |-> total_files, downloaded_files |-> 0, failed_files |-> 0,
     downloaded_bytes |-> 0, start_time |-> now, end_time |-> None]
is_complete(progress) ==
    progress.downloaded_files + progress.failed_files >= progress.total_files
\* the progress object as it stands after an assignment to one of its fields
Counted(w, progress) == Logged(w, "progress", progress)

\* the loop of download_all_batches; plans gives the remote's behaviour for
\* each batch id
\* the loop counting a failed batch as downloaded too
RECURSIVE download_each_double_counting(_, _, _, _, _, _, _)
download_each_double_counting(w, org_code, force_refresh, batches, i, plans, progress) ==
    IF i > Len(batches) THEN Result(w, "", progress)
    ELSE
    LET batch == batches[i] IN
    IF ~force_refresh /\ Truthy(batch.file_id) /\ file_exists(w, batch.file_id[1])
    THEN download_each_double_counting(
                       Counted(Logged(w, "skip", batch.batch_id),
                               [progress EXCEPT !.downloaded_files = @ + 1]),
                       org_code, force_refresh, batches, i + 1, plans,
                       [progress EXCEPT !.downloaded_files = @ + 1])
    ELSE
    Bind(download_batch_file(Logged(w, "download_batch_file", batch.batch_id),
                             batch.batch_id, org_code, plans[batch.batch_id]),
         LAMBDA d :
            IF d.raised = ""
            THEN download_each_double_counting(
                               Counted(Logged(d.w, "downloaded", batch.batch_id),
                                       [progress EXCEPT !.downloaded_files = @ + 1,
                                                        !.downloaded_bytes = @ + Len(d.value)]),
                               org_code, force_refresh, batches, i + 1, plans,
                               [progress EXCEPT !.downloaded_files = @ + 1,
                                                !.downloaded_bytes = @ + Len(d.value)])
            ELSE download_each_double_counting(
                               Counted(Logged(Caught(d.w), "failed", batch.batch_id),
                                       [progress EXCEPT !.failed_files = @ + 1,
                                                        !.downloaded_files = @ + 1]),
                               org_code, force_refresh, batches, i + 1, plans,
                               [progress EXCEPT !.failed_files = @ + 1,
                                                !.downloaded_files = @ + 1]))

\* the loop ending at the first batch that fails
RECURSIVE download_each_aborting(_, _, _, _, _, _, _)
download_each_aborting(w, org_code, force_refresh, batches, i, plans, progress) ==
    IF i > Len(batches) THEN Result(w, "", progress)
    ELSE
    LET batch == batches[i] IN
    IF ~force_refresh /\ Truthy(batch.file_id) /\ file_exists(w, batch.file_id[1])
    THEN download_each_aborting(Counted(Logged(w, "skip", batch.batch_id),
                                        [progress EXCEPT !.downloaded_files = @ + 1]),
                                org_code, force_refresh, batches, i + 1, plans,
                                [progress EXCEPT !.downloaded_files = @ + 1])
    ELSE
    Bind(download_batch_file(Logged(w, "download_batch_file", batch.batch_id),
                             batch.batch_id, org_code, plans[batch.batch_id]),
         LAMBDA d :
            IF d.raised = ""
            THEN download_each_aborting(
                               Counted(Logged(d.w, "downloaded", batch.batch_id),
                                       [progress EXCEPT !.downloaded_files = @ + 1,
                                                        !.downloaded_bytes = @ + Len(d.value)]),
                               org_code, force_refresh, batches, i + 1, plans,
                               [progress EXCEPT !.downloaded_files = @ + 1,
                                                !.downloaded_bytes = @ + Len(d.value)])
            ELSE Result(Counted(Logged(Caught(d.w), "failed", batch.batch_id),
                                [progress EXCEPT !.failed_files = @ + 1]), "",
                        [progress EXCEPT !.failed_files = @ + 1]))

\* one pass of the loop: the batch at position i, then the rest
RECURSIVE download_each(_, _, _, _, _, _, _)
download_each(w, org_code, force_refresh, batches, i, plans, progress) ==
    IF i > Len(batches) THEN Result(w, "", progress)
    ELSE
    LET batch == batches[i] IN
    IF ~force_refresh /\ Truthy(batch.file_id) /\ file_exists(w, batch.file_id[1])
    THEN download_each(Counted(Logged(w, "skip", batch.batch_id),
                               [progress EXCEPT !.downloaded_files = @ + 1]),
                       org_code, force_refresh, batches, i + 1, plans,
                       [progress EXCEPT !.downloaded_files = @ + 1])
    ELSE
    Bind(download_batch_file(Logged(w, "download_batch_file", batch.batch_id),
                             batch.batch_id, org_code, plans[batch.batch_id]),
         LAMBDA d :
            IF d.raised = ""
            THEN download_each(Counted(Logged(d.w, "downloaded", batch.batch_id),
                                       [progress EXCEPT !.downloaded_files = @ + 1,
                                                        !.downloaded_bytes = @ + Len(d.value)]),
                               org_code, force_refresh, batches, i + 1, plans,
                               [progress EXCEPT !.downloaded_files = @ + 1,
                                                !.downloaded_bytes = @ + Len(d.value)])
            ELSE download_each(Counted(Logged(Caught(d.w), "failed", batch.batch_id),
                                       [progress EXCEPT !.failed_files = @ + 1]),
                               org_code, force_refresh, batches, i + 1, plans,
                               [progress EXCEPT !.failed_files = @ + 1]))

download_all_batches(w, org_code, force_refresh, script, plans) ==
    Bind(fetch_batches_by_org_code(w, org_code, force_refresh, script),
         LAMBDA f :
            IF f.raised # "" THEN f
            ELSE Bind(download_each(Counted(Logged(f.w, "listed", f.value),
                                            DownloadProgress(Len(f.value))),
                                    org_code, force_refresh, f.value, 1, plans,
                                    DownloadProgress(Len(f.value))),
                      LAMBDA r :
                         Result(Counted(r.w, [r.value EXCEPT !.end_time = Some(now)]),
                                "", [r.value EXCEPT !.end_time = Some(now)])))

\* the delete loop leaving the blobs in place
RECURSIVE delete_files_keeping_blobs(_, _)
delete_files_keeping_blobs(w, batches) ==
    IF batches = <<>> THEN w
    ELSE delete_files_keeping_blobs(delete_from_cache(w, Head(batches).batch_id),
                                    Tail(batches))

\* the loop of delete_org_batches over the org's batch records
RECURSIVE delete_files(_, _)
delete_files(w, batches) ==
    IF batches = <<>> THEN w
    ELSE LET batch == Head(batches)
             w1 == IF Truthy(batch.file_id)
                   THEN delete_file(w, batch.file_id[1]).w
                   ELSE w
         IN  delete_files(delete_from_cache(w1, batch.batch_id), Tail(batches))

delete_org_batches(w, org_code) ==
    LET batches == get_batches_by_org_code(w, org_code)
        w1 == delete_files(w, batches)
        w2 == Logged(delete_batches_by_org_code(w1, org_code),
                     "delete_batches_by_org_code", org_code)
        w3 == Logged(delete_org_code(w2, org_code), "delete_org_code", org_code)
    IN  Result(Rethrow(w3, "delete_org_batches"), "", TRUE)


(* ====================== inputs the model enumerates =================== *)
\* the remote answering every attempt of one call the same way
Always(r) == [i \in 1..MAX_RETRIES |-> r]
\* the remote timing out once, then answering
Flaky(r) == [i \in 1..MAX_RETRIES |-> IF i = 1 THEN Timeout ELSE r]

\* answers of the batch-list endpoint: one of the lists, or a failure
ListScripts(lists) ==
    {Always(Ok(ListBody(l))) : l \in lists}
    \cup {Flaky(Http(503))}

\* answers to the two requests of one download
Plan(url, content) == [url |-> url, content |-> content]
Serves(b, data) ==
    Plan(Always(Ok(UrlBody(FileUrl(b)))), Always(Ok(ContentBody(<<data>>))))
Refuses(b) == Plan(Always(Ok(UrlBody(FileUrl(b)))), Always(TooMany(NoHeader)))
PlansFor(b) == {Serves(b, data) : data \in Payloads} \cup {Refuses(b)}
\* a bulk download meets a remote that refuses the batches in failing
BulkPlans(failing) ==
    [b \in BatchIds |-> IF b \in failing THEN Refuses(b) ELSE Serves(b, <<7>>)]

(* =============================== actions ============================== *)
EmptyMap == [k \in {} |-> k]

\* the Fetcher calls, Blob Store puts and deletes a handler made
Count(log, names) == Cardinality({i \in 1..Len(log) : log[i].call \in names})
FetcherOps == {"fetch_org_batches", "fetch_batch_file_url", "download_batch_content"}
FetcherCalls(log) == Count(log, FetcherOps)

\* the record of a handler call: its arguments, its outcome, the trace of the
\* calls it made, the stores as it found them (before), what earlier
\* downloads had returned (had), the time of the call (at) and a summary of
\* the call before it
Summary(call) ==
    [op |-> call.op, org_code |-> call.org_code, force_refresh |-> call.force_refresh,
     raised |-> call.raised, fetches |-> FetcherCalls(call.log)]
Call(op, org_code, batch_id, force_refresh, arg, r) ==
    [op |-> op, org_code |-> org_code, batch_id |-> batch_id,
     force_refresh |-> force_refresh, arg |-> arg, raised |-> r.raised,
     value |-> r.value, log |-> r.w.log, before |-> World, had |-> got,
     at |-> now, prev |-> Summary(last)]
NoCall == [op |-> "", org_code |-> "", batch_id |-> "", force_refresh |-> FALSE,
           arg |-> <<>>, raised |-> "", value |-> <<>>, log |-> <<>>,
           before |-> <<>>, had |-> <<>>, at |-> 0, prev |-> <<>>]
NoFetch == [op |-> "", script |-> <<>>, out |-> <<>>]
\* independent callers of one BatchService over the same MongoDB and cache
Callers == 1..MaxCallers
\* a caller's position in download_batch_file and the locals it holds there;
\* pre says the call began with a record, no file_id on it and no cache entry
Idle == [pc |-> "idle", batch_id |-> "", org_code |-> "", plan |-> <<>>,
         pre |-> FALSE, batch_file |-> None, file_data |-> <<>>, file_id |-> None,
         raised |-> "", value |-> <<>>]

Init ==
    /\ org_codes = <<>>
    /\ batch_files = <<>>
    /\ fs = EmptyMap
    /\ next_file_id = 1
    /\ cache = EmptyMap
    /\ now = 0
    /\ cache_enabled \in BOOLEAN
    /\ tz \in (IF cache_enabled THEN TzOffsets ELSE {0})
    /\ calls = 0
    /\ ticks = 0
    /\ last = NoCall
    /\ got = [b \in BatchIds |-> None]
    /\ fx = NoFetch
    /\ callers = [c \in Callers |-> Idle]

\* the stores as the handler left them; a handler that raised keeps the
\* writes it made before raising
Commit(r, call) ==
    /\ org_codes' = r.w.org_codes
    /\ batch_files' = r.w.batch_files
    /\ fs' = r.w.fs
    /\ next_file_id' = r.w.next_file_id
    /\ cache' = r.w.cache
    /\ last' = call
    /\ calls' = calls + 1
    /\ UNCHANGED <<now, tz, cache_enabled, ticks, fx, callers>>

\* got after the downloads a handler's log shows: per batch, the bytes, tier
\* and time of the latest download that returned content
RECURSIVE Delivered(_, _)
Delivered(g, log) ==
    IF log = <<>> THEN g
    ELSE IF Head(log).call = "served"
    THEN Delivered([g EXCEPT ![Head(log).arg.batch_id] =
                        Some([data |-> Head(log).arg.data, at |-> now,
                              tier |-> Head(log).arg.tier,
                              stored |-> Head(log).arg.stored])],
                   Tail(log))
    ELSE Delivered(g, Tail(log))

FetchMetadata ==
    \E org_code \in OrgCodes, force_refresh \in BOOLEAN, script \in ListScripts(PlainLists) :
        /\ calls < MaxCalls
        /\ \E r \in {fetch_batches_by_org_code(World, org_code, force_refresh, script)} :
               Commit(r, Call("fetch_batches_by_org_code", org_code, "", force_refresh, <<>>, r))
        /\ UNCHANGED got

\* callers download a batch under the organization that lists it
OwnerOf(batch_id) ==
    LET owned == SelectIndex(batch_files, "batch_id", batch_id) IN
    IF owned = {} THEN {"ORG1"} ELSE {batch_files[FirstIndex(owned)].org_code}

DownloadOne ==
    \E batch_id \in BatchIds :
      \E org_code \in OwnerOf(batch_id), plan \in PlansFor(batch_id) :
        /\ calls < MaxCalls
        /\ \E r \in {download_batch_file(World, batch_id, org_code, plan)} :
               /\ Commit(r, Call("download_batch_file", org_code, batch_id, FALSE, <<>>, r))
               /\ got' = Delivered(got, r.w.log)

DownloadAll ==
    \E org_code \in OrgCodes, force_refresh \in BOOLEAN,
       script \in ListScripts(RemoteLists), failing \in SUBSET BatchIds :
        /\ calls < MaxBulkCalls
        /\ \E r \in {download_all_batches(World, org_code, force_refresh, script,
                                         BulkPlans(failing))} :
               /\ Commit(r, Call("download_all_batches", org_code, "", force_refresh, <<>>, r))
               /\ got' = Delivered(got, r.w.log)

DeleteOrg ==
    \E org_code \in OrgCodes :
        /\ calls < MaxCalls
        /\ \E r \in {delete_org_batches(World, org_code)} :
               /\ Commit(r, Call("delete_org_batches", org_code, "", FALSE, <<>>, r))
               /\ got' = [b \in BatchIds |->
                            IF \E i \in 1..Len(batch_files) :
                                  /\ batch_files[i].batch_id = b
                                  /\ batch_files[i].org_code = org_code
                            THEN None ELSE got[b]]

\* time passes between handler calls: the clock is sampled one second before
\* a TTL has gone by and again one second later, as long as a call can follow
TickStep(i) == IF i % 2 = 1 THEN CACHE_TTL - 1 ELSE 1
Tick(limit) ==
    \E d \in {TickStep(ticks + 1)} :
        /\ ticks < MaxTicks
        /\ calls < limit
        /\ now' = now + d
        /\ ticks' = ticks + 1
        /\ UNCHANGED <<org_codes, batch_files, fs, next_file_id, cache, tz,
                       cache_enabled, calls, last, got, fx, callers>>

Next == FetchMetadata \/ DownloadOne \/ DeleteOrg \/ Tick(MaxCalls)

Spec == Init /\ [][Next]_vars

\* bulk downloads, each over what earlier bulk downloads left behind
NextBulk == DownloadAll \/ Tick(MaxBulkCalls)

SpecBulk == Init /\ [][NextBulk]_vars


(* ------------------- the Blob Store called directly ------------------- *)
FileIds == {Oid(n) : n \in 1..MaxBlobCalls} \cup {JunkId}

StoreFile ==
    \E file_data \in Payloads :
        /\ calls < MaxBlobCalls
        /\ LET st == store_file(World, file_data)
               r == Result(st.w, "", st.id)
           IN  Commit(r, Call("store_file", "", "", FALSE, file_data, r))
        /\ UNCHANGED got

GetFile ==
    \E file_id \in FileIds :
        /\ calls < MaxBlobCalls
        /\ LET r == Result(World, "", get_file(World, file_id))
           IN  Commit(r, Call("get_file", "", "", FALSE, file_id, r))
        /\ UNCHANGED got

DeleteFile ==
    \E file_id \in FileIds :
        /\ calls < MaxBlobCalls
        /\ LET d == delete_file(World, file_id)
               r == Result(d.w, "", d.ok)
           IN  Commit(r, Call("delete_file", "", "", FALSE, file_id, r))
        /\ UNCHANGED got

FileExists ==
    \E file_id \in FileIds :
        /\ calls < MaxBlobCalls
        /\ LET r == Result(World, "", file_exists(World, file_id))
           IN  Commit(r, Call("file_exists", "", "", FALSE, file_id, r))
        /\ UNCHANGED got

NextBlob == StoreFile \/ GetFile \/ DeleteFile \/ FileExists

SpecBlob == Init /\ [][NextBlob]_vars

(* --------------------- the Fetcher called directly -------------------- *)
\* one Fetcher call per behaviour: the Fetcher keeps no state between calls
\* what the remote may answer to one request
Replies ==
    {Timeout, ConnectionError, Http(500), Http(404)}
    \cup {TooMany(h) : h \in RetryAfterHeaders}
    \cup {Ok(ListBody(<<>>)), Ok(ListBody(<<Descriptor("b1")>>)), Ok(EmptyObject),
          Ok(UrlBody(FileUrl("b1"))), Ok(ContentBody(<< <<7>>, <<>>, <<8, 9>> >>)),
          Ok(ContentBody(<<>>))}
Scripts == [1..MAX_RETRIES -> Replies]

Fetched(op, script, out) ==
    /\ fx' = [op |-> op, script |-> script, out |-> out]
    /\ UNCHANGED <<org_codes, batch_files, fs, next_file_id, cache, now, tz,
                   cache_enabled, calls, ticks, last, got, callers>>

MakeRequest ==
    /\ fx = NoFetch
    /\ \E script \in Scripts :
           Fetched("make_request", script, make_request(ListUrl("ORG1"), script))

FetchOrgBatches ==
    /\ fx = NoFetch
    /\ \E script \in Scripts :
           Fetched("fetch_org_batches", script, fetch_org_batches("ORG1", script))

FetchBatchFileUrl ==
    /\ fx = NoFetch
    /\ \E script \in Scripts :
           Fetched("fetch_batch_file_url", script, fetch_batch_file_url("b1", "ORG1", script))

DownloadBatchContent ==
    /\ fx = NoFetch
    /\ \E script \in Scripts :
           Fetched("download_batch_content", script,
                download_batch_content(FileUrl("b1"), script))

NextFetcher == MakeRequest \/ FetchOrgBatches \/ FetchBatchFileUrl \/ DownloadBatchContent

SpecFetcher == Init /\ [][NextFetcher]_vars

(* --------------------- the TTL cache called directly ------------------ *)
GetFromCache ==
    \E batch_id \in BatchIds :
        /\ calls < MaxCacheCalls
        /\ \E g \in {get_from_cache(World, batch_id)} :
               \E r \in {Result(g.w, "", g.data)} :
                  Commit(r, Call("get_from_cache", "", batch_id, FALSE, batch_id, r))
        /\ UNCHANGED got

SaveToCache ==
    \E batch_id \in BatchIds, file_data \in Payloads :
        /\ calls < MaxCacheCalls
        /\ \E r \in {Result(save_to_cache(World, batch_id, file_data), "", None)} :
               Commit(r, Call("save_to_cache", "", batch_id, FALSE, file_data, r))
        /\ UNCHANGED got

DeleteFromCache ==
    \E batch_id \in BatchIds :
        /\ calls < MaxCacheCalls
        /\ \E r \in {Result(delete_from_cache(World, batch_id), "", None)} :
               Commit(r, Call("delete_from_cache", "", batch_id, FALSE, batch_id, r))
        /\ UNCHANGED got

NextCache == GetFromCache \/ SaveToCache \/ DeleteFromCache \/ Tick(MaxCacheCalls)

SpecCache == Init /\ [][NextCache]_vars

(* ---------------- the Database adapter called directly ---------------- *)
\* each adapter operation called with MongoDB answering (down = FALSE) or
\* raising a PyMongoError the moment the operation reaches it (down = TRUE)
Outage(op, key, down) == [World EXCEPT !.down = IF down THEN {<<op, key>>} ELSE {}]
\* last.before keeps the outage the call ran under
Adapter(op, key, arg, down, r) ==
    /\ Commit(r, [Call(op, key, "", FALSE, arg, r) EXCEPT !.before = Outage(op, key, down)])
    /\ UNCHANGED got
\* the values a partial update gives to the fields it names
UpdateFields == {"file_id", "file_size", "downloaded_at"}
Restrict(updates, F) == [f \in F |-> updates[f]]

DbCreateOrgCode ==
    /\ calls < MaxStoreCalls
    /\ \E org_code \in OrgCodes, down \in BOOLEAN :
         LET r == Result(create_org_code(Outage("create_org_code", org_code, down),
                                         OrgCode(org_code, org_code, 0)), "", org_code)
         IN  Adapter("create_org_code", org_code, <<>>, down, r)
DbGetOrgCode ==
    /\ calls < MaxStoreCalls
    /\ \E org_code \in OrgCodes, down \in BOOLEAN :
         LET w == trying_get_org_code(Outage("get_org_code", org_code, down), org_code)
             r == Result(w, "", get_org_code(w, org_code))
         IN  Adapter("get_org_code", org_code, <<>>, down, r)
DbUpdateOrgCode ==
    /\ calls < MaxStoreCalls
    /\ \E org_code \in OrgCodes, batch_count \in 1..2, down \in BOOLEAN :
         LET r == Result(update_org_code(Outage("update_org_code", org_code, down),
                                         org_code, batch_count), "", TRUE)
         IN  Adapter("update_org_code", org_code, batch_count, down, r)
DbDeleteOrgCode ==
    /\ calls < MaxStoreCalls
    /\ \E org_code \in OrgCodes, down \in BOOLEAN :
         LET r == Result(delete_org_code(Outage("delete_org_code", org_code, down),
                                         org_code), "", TRUE)
         IN  Adapter("delete_org_code", org_code, <<>>, down, r)
DbCreateBatchFile ==
    /\ calls < MaxStoreCalls
    /\ \E batch_id \in BatchIds, org_code \in OrgCodes, down \in BOOLEAN :
         LET r == Result(create_batch_file(Outage("create_batch_file", batch_id, down),
                                           BatchFile(batch_id, org_code)),
                         "", batch_id)
         IN  Adapter("create_batch_file", batch_id, <<>>, down, r)
DbGetBatchFile ==
    /\ calls < MaxStoreCalls
    /\ \E batch_id \in BatchIds, down \in BOOLEAN :
         LET w == Outage("get_batch_file", batch_id, down)
             r == Result(w, "", get_batch_file(w, batch_id))
         IN  Adapter("get_batch_file", batch_id, <<>>, down, r)
DbGetBatchesByOrgCode ==
    /\ calls < MaxStoreCalls
    /\ \E org_code \in OrgCodes, down \in BOOLEAN :
         LET w == Outage("get_batches_by_org_code", org_code, down)
             r == Result(w, "", get_batches_by_org_code(w, org_code))
         IN  Adapter("get_batches_by_org_code", org_code, <<>>, down, r)
DbUpdateBatchFile ==
    /\ calls < MaxStoreCalls
    /\ \E batch_id \in BatchIds, down \in BOOLEAN, file_size \in 5..6,
          F \in SUBSET UpdateFields \ {{}} :
         LET updates == Restrict([file_id |-> Some(Oid(1)), file_size |-> file_size,
                                  downloaded_at |-> Some(now + 1)], F)
             r == Result(update_batch_file(Outage("update_batch_file", batch_id, down),
                                           batch_id, updates), "", TRUE)
         IN  Adapter("update_batch_file", batch_id, updates, down, r)
DbDeleteBatchFile ==
    /\ calls < MaxStoreCalls
    /\ \E batch_id \in BatchIds, down \in BOOLEAN :
         LET r == Result(delete_batch_file(Outage("delete_batch_file", batch_id, down),
                                           batch_id), "", TRUE)
         IN  Adapter("delete_batch_file", batch_id, <<>>, down, r)
DbDeleteBatchesByOrgCode ==
    /\ calls < MaxStoreCalls
    /\ \E org_code \in OrgCodes, down \in BOOLEAN :
         LET r == Result(delete_batches_by_org_code(
                             Outage("delete_batches_by_org_code", org_code, down),
                             org_code), "", TRUE)
         IN  Adapter("delete_batches_by_org_code", org_code, <<>>, down, r)
DbStoreFile ==
    /\ calls < MaxStoreCalls
    /\ \E file_data \in Payloads, down \in BOOLEAN :
         LET st == store_file(Outage("store_file", "", down), file_data)
             r == Result(st.w, "", st.id)
         IN  Adapter("store_file", "", file_data, down, r)
DbGetFile ==
    /\ calls < MaxStoreCalls
    /\ \E file_id \in FileIds, down \in BOOLEAN :
         LET w == Outage("get_file", "", down)
             r == Result(w, "", get_file(w, file_id))
         IN  Adapter("get_file", "", file_id, down, r)
DbDeleteFile ==
    /\ calls < MaxStoreCalls
    /\ \E file_id \in FileIds, down \in BOOLEAN :
         LET d == delete_file(Outage("delete_file", "", down), file_id)
             r == Result(d.w, "", d.ok)
         IN  Adapter("delete_file", "", file_id, down, r)
DbFileExists ==
    /\ calls < MaxStoreCalls
    /\ \E file_id \in FileIds, down \in BOOLEAN :
         LET w == Outage("file_exists", "", down)
             r == Result(w, "", file_exists(w, file_id))
         IN  Adapter("file_exists", "", file_id, down, r)

NextStore ==
    \/ DbCreateOrgCode \/ DbGetOrgCode \/ DbUpdateOrgCode \/ DbDeleteOrgCode
    \/ DbCreateBatchFile \/ DbGetBatchFile \/ DbGetBatchesByOrgCode
    \/ DbUpdateBatchFile \/ DbDeleteBatchFile \/ DbDeleteBatchesByOrgCode
    \/ DbStoreFile \/ DbGetFile \/ DbDeleteFile \/ DbFileExists

SpecStore == Init /\ [][NextStore]_vars

(* ------------- downloads while the Blob Store is unavailable ---------- *)
\* GridFS unreachable for a whole call, or only when the call reads the blob
BlobStoreDown == {<<op, "">> : op \in {"store_file", "get_file", "delete_file", "file_exists"}}
Outages == {BlobStoreDown, {<<"get_file", "">>}}

DownloadOneBlobStoreDown ==
    \E batch_id \in BatchIds :
      \E org_code \in OwnerOf(batch_id), plan \in PlansFor(batch_id), down \in Outages :
        /\ calls < MaxCalls
        /\ \E r \in {download_batch_file([World EXCEPT !.down = down],
                                         batch_id, org_code, plan)} :
               /\ Commit(r, [Call("download_batch_file", org_code, batch_id, FALSE, <<>>, r)
                                EXCEPT !.before = [World EXCEPT !.down = down]])
               /\ got' = Delivered(got, r.w.log)

\* a blob disappears from GridFS while its Batch Record still names it
\* (db.delete_file called without the record being updated)
DropFile ==
    \E file_id \in DOMAIN fs :
        /\ fs' = delete_file(World, file_id).w.fs
        /\ UNCHANGED <<org_codes, batch_files, next_file_id, cache, now, tz,
                       cache_enabled, calls, ticks, last, got, fx, callers>>

NextOutage ==
    FetchMetadata \/ DownloadOne \/ DownloadOneBlobStoreDown \/ DropFile \/ Tick(MaxCalls)

SpecOutage == Init /\ [][NextOutage]_vars

(* ------------- deleting an organization while a step fails ------------ *)
\* what may fail during one delete_org_batches(org_code): GridFS, the whole
\* Metadata Store, one of its two deletes alone, or the cache directory
MetadataDown(org_code) ==
    {<<op, org_code>> : op \in {"get_batches_by_org_code", "delete_batches_by_org_code",
                                "delete_org_code"}}
CacheDown == {<<"cache_unlink", b>> : b \in BatchIds}
DeleteFaults(org_code) ==
    {BlobStoreDown, MetadataDown(org_code), CacheDown,
     {<<"get_batches_by_org_code", org_code>>},
     {<<"delete_batches_by_org_code", org_code>>}, {<<"delete_org_code", org_code>>}}

\* got keeps what was delivered for the batches whose records are left
DeleteOrgStoreDown ==
    \E org_code \in OrgCodes :
      \E down \in DeleteFaults(org_code) :
        /\ calls < MaxCalls
        /\ \E r \in {delete_org_batches([World EXCEPT !.down = down], org_code)} :
               /\ Commit(r, [Call("delete_org_batches", org_code, "", FALSE, <<>>, r)
                                EXCEPT !.before = [World EXCEPT !.down = down]])
               /\ got' = [b \in BatchIds |->
                            IF get_batch_file(Caught(r.w), b) = None THEN None ELSE got[b]]

\* the caller repeats the delete_org_batches(org_code) it just made, with
\* the stores available; arg keeps what the organization had before the
\* first of the two calls
DeleteOrgAgain ==
    /\ calls < MaxCalls
    /\ last.op = "delete_org_batches"
    /\ last.arg = <<>>
    /\ \E r \in {delete_org_batches(World, last.org_code)} :
           /\ Commit(r, Call("delete_org_batches", last.org_code, "", FALSE,
                             [batches |-> Filter(last.before.batch_files, "org_code",
                                                 last.org_code),
                              down |-> last.before.down, raised |-> last.raised],
                             r))
           /\ got' = [b \in BatchIds |->
                        IF get_batch_file(r.w, b) = None THEN None ELSE got[b]]

NextDelete == DownloadAll \/ DeleteOrg \/ DeleteOrgStoreDown \/ DeleteOrgAgain

SpecDelete == Init /\ [][NextDelete]_vars

(* --------------- download_batch_file called concurrently -------------- *)
\* each caller runs download_batch_file one store, cache or Fetcher call at a
\* time; calls of different callers interleave freely
Step(w, c, rec) ==
    /\ org_codes' = w.org_codes
    /\ batch_files' = w.batch_files
    /\ fs' = w.fs
    /\ next_file_id' = w.next_file_id
    /\ cache' = w.cache
    /\ callers' = [callers EXCEPT ![c] = rec]
    /\ UNCHANGED <<now, tz, cache_enabled, calls, ticks, last, got, fx>>
At(c, pc) == callers[c].pc = pc
Returned(c, value) == [callers[c] EXCEPT !.pc = "done", !.value = value]
Failed(c, error) == [callers[c] EXCEPT !.pc = "done", !.raised = error]

\* download_batch_file(batch_id, org_code) is called
Enter(c) ==
    /\ At(c, "idle")
    /\ \E batch_id \in BatchIds :
         \E org_code \in OwnerOf(batch_id), plan \in PlansFor(batch_id) :
            Step(World, c,
                 [Idle EXCEPT !.pc = "check_cache", !.batch_id = batch_id,
                              !.org_code = org_code, !.plan = plan,
                              !.pre = /\ Truthy(get_batch_file(World, batch_id))
                                      /\ get_batch_file(World, batch_id)[1].file_id = None
                                      /\ batch_id \notin DOMAIN cache])
\* if CACHE_ENABLED: cached_file = self._get_from_cache(batch_id)
CheckCache(c) ==
    /\ At(c, "check_cache")
    /\ LET g == get_from_cache(World, callers[c].batch_id) IN
       IF cache_enabled /\ Truthy(g.data)
       THEN Step(g.w, c, Returned(c, g.data[1]))
       ELSE Step(g.w, c, [callers[c] EXCEPT !.pc = "get_batch_file"])
\* batch_file = self.db.get_batch_file(batch_id)
GetBatchFile(c) ==
    /\ At(c, "get_batch_file")
    /\ LET batch_file == get_batch_file(World, callers[c].batch_id) IN
       Step(World, c,
            [callers[c] EXCEPT !.batch_file = batch_file,
                               !.pc = IF batch_file # None /\ Truthy(batch_file[1].file_id)
                                      THEN "get_file" ELSE "fetch"])
\* file_data = self.db.get_file(batch_file.file_id), and the cache update
ReadBlob(c) ==
    /\ At(c, "get_file")
    /\ LET file_data == get_file(World, callers[c].batch_file[1].file_id[1]) IN
       IF Truthy(file_data)
       THEN Step(save_to_cache(World, callers[c].batch_id, file_data[1]), c,
                 Returned(c, file_data[1]))
       ELSE Step(World, c, [callers[c] EXCEPT !.pc = "fetch"])
\* fetch_batch_file_url, download_batch_content and the empty-content test
FetchContent(c) ==
    /\ At(c, "fetch")
    /\ LET u == fetch_batch_file_url(callers[c].batch_id, callers[c].org_code,
                                     callers[c].plan.url)
           d == download_batch_content(u.value, callers[c].plan.content)
       IN  IF u.raised # "" THEN Step(World, c, Failed(c, u.raised))
           ELSE IF d.raised # "" THEN Step(World, c, Failed(c, d.raised))
           ELSE IF d.value = <<>> THEN Step(World, c, Failed(c, "DownloadFailedError"))
           ELSE Step(World, c,
                     [callers[c] EXCEPT !.file_data = d.value,
                                        !.pc = IF callers[c].batch_file # None
                                               THEN "store_file" ELSE "save_to_cache"])
\* file_id = self.db.store_file(file_data, ...)
PutBlob(c) ==
    /\ At(c, "store_file")
    /\ LET st == store_file(World, callers[c].file_data) IN
       Step(st.w, c, [callers[c] EXCEPT !.file_id = Some(st.id), !.pc = "update_batch_file"])
\* self.db.update_batch_file(batch_id, {file_id, file_size, downloaded_at})
PointRecord(c) ==
    /\ At(c, "update_batch_file")
    /\ Step(update_batch_file(World, callers[c].batch_id,
                              [file_id |-> callers[c].file_id,
                               file_size |-> Len(callers[c].file_data),
                               downloaded_at |-> Some(now)]),
            c, [callers[c] EXCEPT !.pc = "save_to_cache"])
\* if CACHE_ENABLED: self._save_to_cache(batch_id, file_data); return file_data
SaveAndReturn(c) ==
    /\ At(c, "save_to_cache")
    /\ Step(save_to_cache(World, callers[c].batch_id, callers[c].file_data),
            c, Returned(c, callers[c].file_data))

\* the listing that creates the Batch Records, before the callers start
Listing == calls < MaxListings /\ (\A c \in Callers : At(c, "idle")) /\ FetchMetadata

NextRace ==
    \/ Listing
    \/ \E c \in Callers :
         \/ Enter(c) \/ CheckCache(c) \/ GetBatchFile(c) \/ ReadBlob(c)
         \/ FetchContent(c) \/ PutBlob(c) \/ PointRecord(c) \/ SaveAndReturn(c)

SpecRace == Init /\ [][NextRace]_vars

(* ------------ fetch_batches_by_org_code called concurrently ------------ *)
\* each caller runs fetch_batches_by_org_code one store or Fetcher call at a
\* time; a StorageError out of a store call ends the caller's call
Syncing(org_code, force_refresh, script) ==
    [pc |-> "get_batches_by_org_code", org_code |-> org_code,
     force_refresh |-> force_refresh, script |-> script, batch_data_list |-> <<>>,
     i |-> 1, org |-> None, existing |-> None, raised |-> "", value |-> <<>>]
\* the caller goes on to pc unless the store call left an exception
Onward(w, c, rec, pc) ==
    Step(Caught(w), c, IF Raised(w) THEN [rec EXCEPT !.pc = "done", !.raised = w.exc]
                       ELSE [rec EXCEPT !.pc = pc])

\* fetch_batches_by_org_code(org_code, force_refresh) is called
SyncEnter(c) ==
    /\ At(c, "idle")
    /\ \E org_code \in OrgCodes, force_refresh \in BOOLEAN,
          script \in ListScripts(PlainLists) :
         Step(World, c, Syncing(org_code, force_refresh, script))
\* if not force_refresh: cached_batches = self.db.get_batches_by_org_code(org_code)
SyncLookup(c) ==
    /\ At(c, "get_batches_by_org_code")
    /\ LET cached_batches == get_batches_by_org_code(World, callers[c].org_code) IN
       IF ~callers[c].force_refresh /\ cache_hit(cached_batches)
       THEN Step(World, c, Returned(c, cached_batches))
       ELSE Step(World, c, [callers[c] EXCEPT !.pc = "fetch_org_batches"])
\* batch_data_list = self.extractor.fetch_org_batches(org_code)
SyncFetch(c) ==
    /\ At(c, "fetch_org_batches")
    /\ LET o == fetch_org_batches(callers[c].org_code, callers[c].script) IN
       IF o.raised # "" THEN Step(World, c, Failed(c, o.raised))
       ELSE Step(World, c, [callers[c] EXCEPT !.batch_data_list = o.value,
                                              !.pc = "get_org_code"])
\* org = self.db.get_org_code(org_code)
SyncGetOrg(c) ==
    /\ At(c, "get_org_code")
    /\ LET w == trying_get_org_code(World, callers[c].org_code) IN
       Onward(w, c, [callers[c] EXCEPT !.org = get_org_code(w, callers[c].org_code)],
              "put_org_code")
\* self.db.create_org_code(org) or self.db.update_org_code(org_code, {...})
SyncPutOrg(c) ==
    /\ At(c, "put_org_code")
    /\ LET me == callers[c]
           w == IF me.org = None
                THEN create_org_code(World, OrgCode(me.org_code, me.org_code,
                                                    Len(me.batch_data_list)))
                ELSE update_org_code(World, me.org_code, Len(me.batch_data_list))
       IN  Onward(w, c, me, "get_batch_file")
\* existing = self.db.get_batch_file(batch_file.batch_id), or the return
\* after the last descriptor
SyncGetBatch(c) ==
    /\ At(c, "get_batch_file")
    /\ LET me == callers[c] IN
       IF me.i > Len(me.batch_data_list)
       THEN Step(World, c, [me EXCEPT !.pc = "done"])
       ELSE Step(World, c,
                 [me EXCEPT !.existing = get_batch_file(World, me.batch_data_list[me.i].batch_id),
                            !.pc = "create_batch_file"])
\* if not existing: self.db.create_batch_file(batch_file); batch_files.append
SyncPutBatch(c) ==
    /\ At(c, "create_batch_file")
    /\ LET me == callers[c]
           batch_file == BatchFile(me.batch_data_list[me.i].batch_id, me.org_code)
           w == IF me.existing = None THEN create_batch_file(World, batch_file) ELSE World
       IN  Onward(w, c, [me EXCEPT !.i = @ + 1, !.value = Append(@, batch_file)],
                  "get_batch_file")

NextSync ==
    \E c \in Callers :
        \/ SyncEnter(c) \/ SyncLookup(c) \/ SyncFetch(c) \/ SyncGetOrg(c)
        \/ SyncPutOrg(c) \/ SyncGetBatch(c) \/ SyncPutBatch(c)

SpecSync == Init /\ [][NextSync]_vars

(* ------------- listings under any org code and any answer ------------- *)
\* the caller passes a well-formed or a malformed org code; the remote
\* answers with a list, with an object that has no `batches`, or fails
AnyListScripts == ListScripts(PlainLists) \cup {Always(Ok(EmptyObject)), Always(Http(404))}
FetchMetadataAny ==
    \E org_code \in OrgCodes \cup Malformed, force_refresh \in BOOLEAN,
       script \in AnyListScripts :
        /\ calls < MaxCalls
        /\ \E r \in {fetch_batches_by_org_code(World, org_code, force_refresh, script)} :
               Commit(r, Call("fetch_batches_by_org_code", org_code, "", force_refresh,
                              script, r))
        /\ UNCHANGED got

NextValidate == FetchMetadataAny

SpecValidate == Init /\ [][NextValidate]_vars

(* ------------- listings of any remote list, as time passes ------------- *)
\* the remote may name a batch twice; the answer is kept with the call
FetchListing ==
    \E org_code \in OrgCodes, force_refresh \in BOOLEAN,
       script \in ListScripts(RemoteLists) :
        /\ calls < MaxCalls
        /\ \E r \in {fetch_batches_by_org_code(World, org_code, force_refresh, script)} :
               Commit(r, Call("fetch_batches_by_org_code", org_code, "", force_refresh,
                              script, r))
        /\ UNCHANGED got

NextRefresh == FetchListing \/ Tick(MaxCalls)

SpecRefresh == Init /\ [][NextRefresh]_vars

(* ------------- listings while the Metadata Store is unavailable ------------- *)
\* what may fail during one fetch_batches_by_org_code(org_code): the lookup
\* of the org's records alone, or every Metadata Store call of the handler
LookupDown(org_code) == {<<"get_batches_by_org_code", org_code>>}
SyncDown(org_code) ==
    LookupDown(org_code)
    \cup {<<op, org_code>> : op \in {"get_org_code", "create_org_code", "update_org_code"}}
    \cup {<<op, b>> : op \in {"get_batch_file", "create_batch_file"}, b \in BatchIds}
FetchMetadataStoreDown ==
    \E org_code \in OrgCodes, force_refresh \in BOOLEAN,
       script \in ListScripts(PlainLists) :
      \E down \in {LookupDown(org_code), SyncDown(org_code)} :
        /\ calls < MaxCalls
        /\ \E r \in {fetch_batches_by_org_code([World EXCEPT !.down = down], org_code,
                                                force_refresh, script)} :
               Commit(r, [Call("fetch_batches_by_org_code", org_code, "", force_refresh,
                               script, r)
                             EXCEPT !.before = [World EXCEPT !.down = down]])
        /\ UNCHANGED got

NextLookupDown == FetchMetadata \/ FetchMetadataStoreDown

SpecLookupDown == Init /\ [][NextLookupDown]_vars

(* ------------- a listing whose store write fails, and the retry ------------- *)
\* what may fail during one sync: nothing, or the insert of one Batch Record
WriteFaults == {{}} \cup {{<<"create_batch_file", b>>} : b \in BatchIds}
FetchListingWriteFails ==
    \E org_code \in OrgCodes, force_refresh \in BOOLEAN,
       script \in ListScripts(RemoteLists), down \in WriteFaults :
        /\ calls < MaxCalls
        /\ last.raised # "StorageError"
        /\ \E r \in {fetch_batches_by_org_code([World EXCEPT !.down = down], org_code,
                                                force_refresh, script)} :
               Commit(r, [Call("fetch_batches_by_org_code", org_code, "", force_refresh,
                               script, r)
                             EXCEPT !.before = [World EXCEPT !.down = down]])
        /\ UNCHANGED got
\* after a sync that raised StorageError the caller asks again without
\* forceRefresh, the store answering and the remote answering as before
FetchListingAgain ==
    /\ calls < MaxCalls
    /\ last.op = "fetch_batches_by_org_code"
    /\ last.raised = "StorageError"
    /\ \E r \in {fetch_batches_by_org_code(World, last.org_code, FALSE, last.arg)} :
           Commit(r, Call("fetch_batches_by_org_code", last.org_code, "", FALSE,
                          last.arg, r))
    /\ UNCHANGED got

NextPartial == FetchListingWriteFails \/ FetchListingAgain

SpecPartial == Init /\ [][NextPartial]_vars

(* ------------- every handler of the service, in any order ------------- *)
NextLifecycle == FetchMetadata \/ DownloadOne \/ DownloadAll \/ DeleteOrg

SpecLifecycle == Init /\ [][NextLifecycle]_vars

(* ------------- reading a batch back from local storage ------------- *)
GetFromStorage ==
    \E batch_id \in BatchIds :
        /\ calls < MaxCalls
        /\ \E r \in {get_batch_file_from_storage(World, batch_id)} :
               Commit(r, Call("get_batch_file_from_storage", "", batch_id, FALSE, <<>>, r))
        /\ UNCHANGED got

NextStorage == FetchMetadata \/ DownloadOne \/ GetFromStorage \/ Tick(MaxCalls)

SpecStorage == Init /\ [][NextStorage]_vars

(* ------------- a service started over an existing cache directory ------------- *)
\* the cache directory as an earlier run left it: empty, or with the file of
\* one batch
Leftover == {EmptyMap, [k \in {"b1"} |-> [data |-> <<7>>, mtime |-> 0]]}
InitLeftover ==
    /\ org_codes = <<>>
    /\ batch_files = <<>>
    /\ fs = EmptyMap
    /\ next_file_id = 1
    /\ cache \in Leftover
    /\ now = 0
    /\ cache_enabled \in BOOLEAN
    /\ tz = 0
    /\ calls = 0
    /\ ticks = 0
    /\ last = NoCall
    /\ got = [b \in BatchIds |-> None]
    /\ fx = NoFetch
    /\ callers = [c \in Callers |-> Idle]

NextLeftover ==
    \/ FetchMetadata
    \/ DownloadOne
    \/ GetFromCache
    \/ SaveToCache
    \/ DeleteFromCache

SpecLeftover == InitLeftover /\ [][NextLeftover]_vars

(* ------------- the TTL cache called concurrently ------------- *)
\* each caller runs _get_from_cache or _save_to_cache one file system call at
\* a time over the cache directory an earlier run left; a file opened for
\* writing is empty until the write is flushed when it is closed
CacheCaller(op, batch_id, file_data, pc) ==
    [pc |-> pc, op |-> op, batch_id |-> batch_id, file_data |-> file_data,
     raised |-> "", value |-> None]
Unlinked(batch_id) == [k \in DOMAIN cache \ {batch_id} |-> cache[k]]
Written(batch_id, file_data) ==
    [k \in DOMAIN cache \cup {batch_id} |->
        IF k = batch_id THEN [data |-> file_data, mtime |-> now] ELSE cache[k]]
\* _get_from_cache(batch_id) is called: `if not CACHE_ENABLED: return None`
CacheGetEnter(c) ==
    /\ At(c, "idle")
    /\ \E batch_id \in BatchIds :
          Step(World, c, CacheCaller("get_from_cache", batch_id, <<>>,
                                     IF cache_enabled THEN "exists" ELSE "done"))
\* if cache_path and cache_path.exists()
CacheExists(c) ==
    /\ At(c, "exists")
    /\ Step(World, c,
            IF callers[c].batch_id \in DOMAIN cache
            THEN [callers[c] EXCEPT !.pc = "stat"]
            ELSE Returned(c, None))
\* age = datetime.utcnow().timestamp() - cache_path.stat().st_mtime
CacheStat(c) ==
    /\ At(c, "stat")
    /\ Step(World, c,
            IF callers[c].batch_id \notin DOMAIN cache
            THEN Failed(c, "FileNotFoundError")
            ELSE IF utcnow_timestamp - cache[callers[c].batch_id].mtime < CACHE_TTL
            THEN [callers[c] EXCEPT !.pc = "read"]
            ELSE [callers[c] EXCEPT !.pc = "unlink"])
\* with open(cache_path, 'rb') as f: return f.read()
CacheRead(c) ==
    /\ At(c, "read")
    /\ Step(World, c,
            IF callers[c].batch_id \notin DOMAIN cache
            THEN Failed(c, "FileNotFoundError")
            ELSE Returned(c, Some(cache[callers[c].batch_id].data)))
\* cache_path.unlink()
CacheUnlink(c) ==
    /\ At(c, "unlink")
    /\ IF callers[c].batch_id \notin DOMAIN cache
       THEN Step(World, c, Failed(c, "FileNotFoundError"))
       ELSE Step([World EXCEPT !.cache = Unlinked(callers[c].batch_id)], c,
                 Returned(c, None))
\* _save_to_cache(batch_id, file_data) is called: `if not CACHE_ENABLED: return`
CachePutEnter(c) ==
    /\ At(c, "idle")
    /\ \E batch_id \in BatchIds, file_data \in Payloads \ {<<>>} :
          Step(World, c, CacheCaller("save_to_cache", batch_id, file_data,
                                     IF cache_enabled THEN "open" ELSE "done"))
\* open(cache_path, 'wb') creates the file or truncates it
CacheOpen(c) ==
    /\ At(c, "open")
    /\ Step([World EXCEPT !.cache = Written(callers[c].batch_id, <<>>)], c,
            [callers[c] EXCEPT !.pc = "write"])
\* f.write(file_data) and the close of the with block; a file unlinked since
\* it was opened takes the bytes with it
CacheWrite(c) ==
    /\ At(c, "write")
    /\ IF callers[c].batch_id \notin DOMAIN cache
       THEN Step(World, c, Returned(c, None))
       ELSE Step([World EXCEPT !.cache = Written(callers[c].batch_id, callers[c].file_data)],
                 c, Returned(c, None))
\* time passes before the callers start
Elapse == (\A c \in Callers : At(c, "idle")) /\ Tick(1)

NextCacheRace ==
    \/ Elapse
    \/ \E c \in Callers :
         \/ CacheGetEnter(c) \/ CacheExists(c) \/ CacheStat(c) \/ CacheRead(c)
         \/ CacheUnlink(c) \/ CachePutEnter(c) \/ CacheOpen(c) \/ CacheWrite(c)

SpecCacheRace == InitLeftover /\ [][NextCacheRace]_vars

(* ============================== claims ================================ *)

(* ---- the Fetcher's request wrapper ---- *)
\* what the wrapper retries: no answer, or a 5xx status
Transient(r) == r.kind \in {"Timeout", "ConnectionError"} \/ (r.kind = "http" /\ r.status >= 500)
Success(r) == r.kind = "http" /\ r.status >= 200 /\ r.status < 300
\* the waits after i failed attempts: backoffFactor^0 .. backoffFactor^(i-1)
BackoffWaits(i) == [j \in 1..i |-> Power(RETRY_BACKOFF_FACTOR, j - 1)]
\* attempt k is the first whose answer is not a transient failure
FirstSettled(script, k) ==
    /\ k \in 1..MAX_RETRIES
    /\ \A j \in 1..(k - 1) : Transient(script[j])
    /\ ~Transient(script[k])
RetryAfterOf(r) ==
    IF r.retry_after.present THEN r.retry_after.text ELSE <<"6", "0">>

\* C8: a 429 answer makes the request wrapper fail with RateLimitExceededError
\* at once, without retrying and without waiting after it, and the error
\* carries the Retry-After header's value, or 60 when the header is absent.
C8_RateLimitedAt429 ==
    \A k \in 1..MAX_RETRIES :
        (/\ fx.op = "make_request"
         /\ FirstSettled(fx.script, k)
         /\ fx.script[k].status = 429)
        => /\ fx.out.raised = "RateLimitExceededError"
           /\ fx.out.requests = k
           /\ fx.out.waits = BackoffWaits(k - 1)
           /\ IntParses(RetryAfterOf(fx.script[k]))
           /\ fx.out.retry_after = int(RetryAfterOf(fx.script[k]))

\* C9: a rate limit met by the request wrapper leaves fetchBatchList,
\* resolveDownloadUrl and streamContent as RateLimitExceededError with its
\* Retry-After value; none of them turns it into another error.
C9_RateLimitSurfaces ==
    LET o == make_request(ListUrl("ORG1"), fx.script) IN
    (/\ fx.op \in {"fetch_org_batches", "fetch_batch_file_url", "download_batch_content"}
     /\ o.raised = "RateLimitExceededError")
    => /\ fx.out.raised = "RateLimitExceededError"
       /\ fx.out.retry_after = o.retry_after

\* C10: when every one of the MAX_RETRIES attempts fails transiently the
\* wrapper makes exactly MAX_RETRIES requests, waits backoffFactor^i after
\* failed attempt i except the last, and raises DownloadFailedError with the
\* URL and the last cause; a success on attempt k is returned at once, after
\* exactly k requests and the k-1 waits before it.
C10_RetryWithBackoff ==
    fx.op = "make_request" =>
        /\ fx.out.requests \in 1..MAX_RETRIES
        /\ (\A j \in 1..MAX_RETRIES : Transient(fx.script[j]))
           => /\ fx.out.raised = "DownloadFailedError"
              /\ fx.out.requests = MAX_RETRIES
              /\ fx.out.waits = BackoffWaits(MAX_RETRIES - 1)
              /\ fx.out.url = ListUrl("ORG1")
              /\ fx.out.reason = Cause(fx.script[MAX_RETRIES])
        /\ \A k \in 1..MAX_RETRIES :
              (FirstSettled(fx.script, k) /\ Success(fx.script[k]))
              => /\ fx.out.raised = ""
                 /\ fx.out.value = fx.script[k]
                 /\ fx.out.requests = k
                 /\ fx.out.waits = BackoffWaits(k - 1)

\* the wrapper gave up after MAX_RETRIES transient failures of two kinds
C10_Witness_GaveUp ==
    /\ fx.op = "make_request"
    /\ \A j \in 1..MAX_RETRIES : Transient(fx.script[j])
    /\ fx.script[1] # fx.script[MAX_RETRIES]
    /\ fx.out.raised = "DownloadFailedError"
    /\ Len(fx.out.waits) = MAX_RETRIES - 1

(* ---- the orchestrator ---- *)
Fetch == "fetch_batches_by_org_code"
Download == "download_batch_file"
\* the stores as the last call left them are the stores it found
StoresUntouched ==
    /\ org_codes = last.before.org_codes
    /\ batch_files = last.before.batch_files
    /\ fs = last.before.fs
    /\ cache = last.before.cache
EventsOf(log, names) == SelectSeq(log, LAMBDA e : e.call \in names)

\* C1: of two consecutive fetchMetadata calls for one organization without
\* forceRefresh, the first of which fetched the list from the remote and
\* returned, the second makes no Fetcher call and writes to no store, so the
\* two make exactly one fetchBatchList call.
C1_SecondFetchIsCacheHit ==
    (/\ last.op = Fetch
     /\ ~last.force_refresh
     /\ last.prev.op = Fetch
     /\ last.prev.org_code = last.org_code
     /\ ~last.prev.force_refresh
     /\ last.prev.raised = ""
     /\ last.prev.fetches = 1)
    => /\ last.raised = ""
       /\ FetcherCalls(last.log) = 0
       /\ last.prev.fetches + FetcherCalls(last.log) = 1
       /\ StoresUntouched

\* C2: a fetchMetadata with forceRefresh leaves every Batch Record that
\* existed before it exactly as it was (durable reference, size, download
\* timestamp), re-listed or not; a record it adds is a fresh one for a batch
\* that had none.
C2_ForcedRefreshKeepsRecords ==
    (last.op = Fetch /\ last.force_refresh) =>
        \A b \in BatchIds :
            /\ Cardinality(SelectIndex(batch_files, "batch_id", b)) <= 1
            /\ get_batch_file(last.before, b) # None
               => get_batch_file(World, b) = get_batch_file(last.before, b)
            /\ (get_batch_file(last.before, b) = None /\ get_batch_file(World, b) # None)
               => get_batch_file(World, b) = Some(BatchFile(b, last.org_code))

\* a forced refresh re-listed a downloaded batch and added a record for another
C2_Witness_RelistedDownloaded ==
    /\ last.op = Fetch /\ last.force_refresh /\ last.raised = ""
    /\ \E i \in 1..Len(last.value) :
          /\ get_batch_file(last.before, last.value[i].batch_id) # None
          /\ Truthy(get_batch_file(last.before, last.value[i].batch_id)[1].file_id)
    /\ Count(last.log, {"create_batch_file"}) > 0

\* C3: a downloadOne of a batch that an earlier downloadOne returned content
\* for, made less than CACHE_TTL after it with no delete in between, makes no
\* Fetcher call and returns the same bytes, with the cache enabled or not.
C3_RepeatDownloadServedLocally ==
    (/\ last.op = Download
     /\ last.had[last.batch_id] # None
     /\ last.at - last.had[last.batch_id][1].at < CACHE_TTL)
    => /\ last.raised = ""
       /\ FetcherCalls(last.log) = 0
       /\ last.value = last.had[last.batch_id][1].data

\* C4: when the latest download of a batch came from the network and was
\* stored under its Batch Record, a downloadOne made once the cache entry
\* is CACHE_TTL old or older is served from the Blob Store: one fallback, no
\* Fetcher call, the same bytes.
C4_ExpiredEntryFallsBackToBlobStore ==
    (/\ last.op = Download
     /\ last.had[last.batch_id] # None
     /\ last.had[last.batch_id][1].tier = "network"
     /\ last.had[last.batch_id][1].stored
     /\ last.batch_id \in DOMAIN last.before.cache
     /\ last.at - last.before.cache[last.batch_id].mtime >= CACHE_TTL)
    => /\ last.raised = ""
       /\ FetcherCalls(last.log) = 0
       /\ last.value = last.had[last.batch_id][1].data
       /\ Len(EventsOf(last.log, {"served"})) = 1
       /\ EventsOf(last.log, {"served"})[1].arg.tier = "gridfs"

\* C5: a downloadAll that got its list of n batches attempts every one of
\* them in order, whichever of them fail, and returns a progress with
\* total = n, failed = the number k of downloadOne calls that failed,
\* succeeded = n - k, the end time set and isComplete true.
C5_BulkIsolatesFailures ==
    (last.op = "download_all_batches" /\ last.raised = "") =>
        LET listed == EventsOf(last.log, {"listed"})[1].arg
            outcomes == EventsOf(last.log, {"skip", "downloaded", "failed"})
            n == Len(listed)
            k == Count(last.log, {"download_batch_file"}) - Count(last.log, {"served"})
            progress == last.value
        IN  /\ Len(outcomes) = n
            /\ \A i \in 1..n : outcomes[i].arg = listed[i].batch_id
            /\ progress.total_files = n
            /\ progress.failed_files = k
            /\ progress.downloaded_files = n - k
            /\ progress.end_time # None
            /\ is_complete(progress)

\* a bulk download whose first batch failed and whose second was downloaded
C5_Witness_FailureThenSuccess ==
    /\ last.op = "download_all_batches" /\ last.raised = ""
    /\ last.value.total_files = 2
    /\ last.value.failed_files = 1
    /\ last.value.downloaded_files = 1
    /\ \E i, j \in 1..Len(last.log) :
          /\ i < j
          /\ last.log[i].call = "failed"
          /\ last.log[j].call = "downloaded"

C7_BlobRoundTrip ==
    /\ last.op \in {"store_file", "get_file", "delete_file", "file_exists"}
       => last.raised = ""
    /\ last.op = "store_file"
       => /\ get_file(World, last.value) = Some(last.arg)
          /\ \A id \in DOMAIN last.before.fs :
                get_file(World, id) = Some(last.before.fs[id])
    /\ last.op = "delete_file"
       => /\ ~file_exists(World, last.arg)
          /\ get_file(World, last.arg) = None
    /\ last.op = "get_file"
       => last.value = (IF last.arg \in DOMAIN last.before.fs
                        THEN Some(last.before.fs[last.arg]) ELSE None)
    /\ last.op = "file_exists"
       => last.value = (last.arg \in DOMAIN last.before.fs)

\* a stored blob was deleted while another blob stayed
C7_Witness_DeletedOneOfTwo ==
    /\ last.op = "delete_file"
    /\ last.arg \in DOMAIN last.before.fs
    /\ \E id \in DOMAIN fs : fs[id] # last.before.fs[last.arg]

(* ---- the Fetcher's three operations ---- *)
\* the reply the request wrapper handed to the operation, if it returned one
Answered == make_request(ListUrl("ORG1"), fx.script)
Lacks(field) ==
    /\ Answered.raised = ""
    /\ Answered.value.body.json
    /\ field \notin Answered.value.body.fields

\* C11: when the batch-list endpoint answers 404, fetchBatchList fails with
\* OrgCodeNotFoundError and not with DownloadFailedError.
C11_NotFoundAt404 ==
    (/\ fx.op = "fetch_org_batches"
     /\ \A j \in 1..MAX_RETRIES : fx.script[j] = Http(404))
    => fx.out.raised = "OrgCodeNotFoundError"

\* C12 as stated: a body without `batches` makes fetchBatchList, and a body
\* without `download_url` makes resolveDownloadURL, fail with ParseError.
C12_MissingFieldIsParseError ==
    /\ (fx.op = "fetch_org_batches" /\ Lacks("batches"))
       => fx.out.raised = "ParseError"
    /\ (fx.op = "fetch_batch_file_url" /\ Lacks("download_url"))
       => fx.out.raised = "ParseError"

\* C12 amended: a body without `batches` makes fetchBatchList fail with
\* OrgCodeNotFoundError, a body without `download_url` makes
\* resolveDownloadURL fail with ParseError; fetchBatchList returns a list,
\* empty or not, only when the body has a `batches` field, and then that list.
C12_MissingFieldNeverYieldsList ==
    /\ (fx.op = "fetch_org_batches" /\ Lacks("batches"))
       => fx.out.raised = "OrgCodeNotFoundError"
    /\ (fx.op = "fetch_batch_file_url" /\ Lacks("download_url"))
       => fx.out.raised = "ParseError"
    /\ (fx.op = "fetch_org_batches" /\ fx.out.raised = "")
       => /\ "batches" \in Answered.value.body.fields
          /\ fx.out.value = Answered.value.body.batches

\* the batch-list endpoint answered a JSON object that has other fields but
\* no `batches`
C12_Witness_ObjectWithoutBatches ==
    /\ fx.op = "fetch_org_batches"
    /\ Lacks("batches")
    /\ Answered.value.body.fields # {}
    /\ fx.out.raised = "OrgCodeNotFoundError"

(* ---- downloadOne and downloadAll: failures and progress ---- *)
\* what download_batch_content handed back during the last call, if called
Streamed == EventsOf(last.log, {"download_batch_content"})

\* C13: a downloadOne of a batch that has no Batch Record and no cache entry
\* fails with BatchFileNotFoundError and returns no content.
C13_NoRecordIsTerminal ==
    (/\ last.op = Download
     /\ get_batch_file(last.before, last.batch_id) = None
     /\ last.batch_id \notin DOMAIN last.before.cache)
    => last.raised = "BatchFileNotFoundError"

\* C14: when the network streams an empty body, downloadOne fails with
\* DownloadFailedError, stores no blob, leaves the Batch Records as they
\* were and writes no cache entry.
C14_EmptyBodyIsFailure ==
    (/\ last.op = Download
     /\ Streamed # <<>>
     /\ Streamed[1].arg.raised = ""
     /\ Streamed[1].arg.data = <<>>)
    => /\ last.raised = "DownloadFailedError"
       /\ fs = last.before.fs
       /\ next_file_id = last.before.next_file_id
       /\ batch_files = last.before.batch_files
       /\ Count(last.log, {"store_file", "update_batch_file", "save_to_cache"}) = 0
       /\ \A b \in DOMAIN cache :
             b \in DOMAIN last.before.cache /\ cache[b] = last.before.cache[b]

\* an empty body was streamed for a batch that has a Batch Record
C14_Witness_EmptyBodyWithRecord ==
    /\ last.op = Download
    /\ get_batch_file(last.before, last.batch_id) # None
    /\ Streamed # <<>>
    /\ Streamed[1].arg.raised = ""
    /\ Streamed[1].arg.data = <<>>
    /\ last.raised = "DownloadFailedError"

\* the progress object after each assignment of a downloadAll call
Snapshots == EventsOf(last.log, {"progress"})
OneCounted(p, q) ==
    \/ /\ q.downloaded_files = p.downloaded_files + 1
       /\ q.failed_files = p.failed_files
    \/ /\ q.downloaded_files = p.downloaded_files
       /\ q.failed_files = p.failed_files + 1

\* C15: throughout a downloadAll over n listed batches succeeded + failed
\* never exceeds total; each batch adds one to exactly one of the two
\* counters; the end time is unset until all n have been attempted and set
\* once after that; at return succeeded + failed = total.
C15_ProgressInvariant ==
    (last.op = "download_all_batches" /\ last.raised = "") =>
        LET n == Len(EventsOf(last.log, {"listed"})[1].arg) IN
        /\ Len(Snapshots) = n + 2
        /\ \A i \in 1..(n + 2) :
              /\ Snapshots[i].arg.total_files = n
              /\ Snapshots[i].arg.downloaded_files + Snapshots[i].arg.failed_files <= n
              /\ (Snapshots[i].arg.end_time # None) <=> (i = n + 2)
        /\ Snapshots[1].arg.downloaded_files + Snapshots[1].arg.failed_files = 0
        /\ \A i \in 1..n : OneCounted(Snapshots[i].arg, Snapshots[i + 1].arg)
        /\ Snapshots[n + 2].arg = last.value
        /\ last.value.downloaded_files + last.value.failed_files = n
        /\ last.value.downloaded_files = Snapshots[n + 1].arg.downloaded_files
        /\ last.value.failed_files = Snapshots[n + 1].arg.failed_files

\* a bulk download over a list naming one batch twice, with a failure in it
C15_Witness_RepeatedBatch ==
    /\ last.op = "download_all_batches" /\ last.raised = ""
    /\ Len(Snapshots) = 4
    /\ EventsOf(last.log, {"listed"})[1].arg[1] = EventsOf(last.log, {"listed"})[1].arg[2]
    /\ last.value.failed_files > 0

(* ---- the TTL cache ---- *)
\* the entry a cache read found was written less than CACHE_TTL before it
FreshBefore(batch_id) ==
    /\ batch_id \in DOMAIN last.before.cache
    /\ last.at - last.before.cache[batch_id].mtime < CACHE_TTL

\* C16: with the cache enabled, a cache read returns the stored bytes exactly
\* when an entry exists that was written less than CACHE_TTL before the read
\* and then leaves the cache as it was; otherwise it reports absent and the
\* entry, if any, is gone after it; no other entry changes.
C16_CacheFreshness ==
    (last.op = "get_from_cache" /\ cache_enabled) =>
        /\ FreshBefore(last.batch_id)
           => /\ last.value = Some(last.before.cache[last.batch_id].data)
              /\ cache = last.before.cache
        /\ ~FreshBefore(last.batch_id)
           => /\ last.value = None
              /\ last.batch_id \notin DOMAIN cache
        /\ \A b \in BatchIds \ {last.batch_id} :
              /\ b \in DOMAIN cache <=> b \in DOMAIN last.before.cache
              /\ b \in DOMAIN cache => cache[b] = last.before.cache[b]

\* the adapter operations of Database
AdapterOps ==
    {"create_org_code", "get_org_code", "update_org_code", "delete_org_code",
     "create_batch_file", "get_batch_file", "get_batches_by_org_code",
     "update_batch_file", "delete_batch_file", "delete_batches_by_org_code",
     "store_file", "get_file", "delete_file", "file_exists"}
\* the last call was an adapter operation that found its backing store down
Unavailable == last.op \in AdapterOps /\ last.before.down # {}
\* the last call raised a StorageError naming it and the cause
RaisedStorageError ==
    /\ last.raised = "StorageError"
    /\ last.log # <<>>
    /\ last.log[Len(last.log)] =
           Event("raise", <<"StorageError", last.op, "PyMongoError">>)

\* C17: every Metadata Store and Blob Store adapter operation called while
\* its backing store is unavailable fails with a StorageError naming the
\* operation and the cause; none returns an absent, empty or false result.
C17_UnavailableStoreRaises == Unavailable => RaisedStorageError

\* the last call was a download of a batch whose record named a blob and
\* whose cache entry was absent
DurableNoCache ==
    /\ last.op = "download_batch_file"
    /\ Truthy(get_batch_file([last.before EXCEPT !.down = {}], last.batch_id))
    /\ Truthy(get_batch_file([last.before EXCEPT !.down = {}], last.batch_id)[1].file_id)
    /\ last.batch_id \notin DOMAIN last.before.cache
\* the blob the record of the last call's batch named
NamedBlob == get_batch_file([last.before EXCEPT !.down = {}], last.batch_id)[1].file_id[1]

\* C18: a download of a batch with a durable reference and no cache entry
\* goes to the network when the Blob Store says the blob is not there; when
\* the Blob Store is unavailable it fails with a storage error and makes no
\* Fetcher request.
C18_OutageIsNotAMiss ==
    DurableNoCache =>
        /\ (last.before.down = {} /\ NamedBlob \notin DOMAIN last.before.fs)
              => FetcherCalls(last.log) > 0
        /\ last.before.down # {}
              => last.raised = "StorageError" /\ FetcherCalls(last.log) = 0

\* the last call was a partial update that reached the Metadata Store
Updated == last.op = "update_batch_file" /\ last.before.down = {}
\* the document the update of the last call selects (0 when there is none)
Target ==
    LET S == SelectIndex(last.before.batch_files, "batch_id", last.org_code) IN
    IF S = {} THEN 0 ELSE FirstIndex(S)
\* a record with every field a partial update may name
FullUpdate(file_size) ==
    [file_id |-> Some(Oid(2)), file_size |-> file_size, downloaded_at |-> Some(now + 1)]
\* both updates took effect: every field either names has the value it gave
BothTookEffect(doc, u1, u2) ==
    /\ \A f \in DOMAIN u1 : doc[f] = u1[f]
    /\ \A f \in DOMAIN u2 : doc[f] = u2[f]

RacedFor(batch_id) ==
    \A c \in Callers :
        /\ callers[c].pc = "done"
        /\ callers[c].batch_id = batch_id
        /\ callers[c].pre
\* the blobs the callers stored that the Blob Store holds
CopiesStored == {callers[c].file_id[1] : c \in {k \in Callers : callers[k].file_id # None}}
                    \cap DOMAIN fs

\* C20: once concurrent downloads of one batch, begun with a record, no
\* file_id and no cache entry, have all returned, the Blob Store holds at
\* most one blob for that batch and the record's file_id names it.
C20_AtMostOneDurableCopy ==
    \A batch_id \in BatchIds :
        RacedFor(batch_id) =>
            /\ Cardinality(CopiesStored) <= 1
            /\ \A id \in CopiesStored :
                  get_batch_file(World, batch_id)[1].file_id = Some(id)

\* documents of a collection whose key field has the value v
Holding(docs, key, v) == Cardinality(SelectIndex(docs, key, v))

Referring == {i \in 1..Len(batch_files) : batch_files[i].file_id # None}

\* C22: in every state, a Batch Record with a file_id has had a successful
\* download, get_file on the file_id returns the bytes of that download
\* (no operation of this specification deletes a blob and keeps its record),
\* and the record's file_size is the length of those bytes.
C22_ReferencedBlobIsTheDownload ==
    \A i \in Referring :
        LET record == batch_files[i]
            download == got[record.batch_id]
        IN  /\ download # None
            /\ get_file(World, record.file_id[1]) = Some(download[1].data)
            /\ record.file_size = Len(download[1].data)
            /\ record.downloaded_at # None
\* two records name their own blobs, of different lengths
C22_Witness_TwoRecordsTwoBlobs ==
    /\ Cardinality(Referring) = 2
    /\ \E i, j \in Referring :
          /\ batch_files[i].file_id # batch_files[j].file_id
          /\ batch_files[i].file_size # batch_files[j].file_size

(* ---- bulk download: the skip ---- *)
\* the batches the last downloadAll listed, and those named once in the list
Listed == EventsOf(last.log, {"listed"})[1].arg
NamedOnce == {i \in 1..Len(Listed) :
                \A j \in 1..Len(Listed) : Listed[j].batch_id = Listed[i].batch_id => j = i}
\* before the call the batch had a record whose file_id named a stored blob
Durable(batch_id) ==
    LET record == get_batch_file(last.before, batch_id) IN
    /\ record # None
    /\ record[1].file_id # None
    /\ file_exists(last.before, record[1].file_id[1])
\* what the loop did with a batch
Did(name, batch_id) ==
    \E k \in DOMAIN last.log : last.log[k].call = name /\ last.log[k].arg = batch_id
Skipped(batch_id) == Did("skip", batch_id)
PassedOn(batch_id) == Did("download_batch_file", batch_id)

\* C23: a downloadAll without forceRefresh skips every batch whose record
\* names a blob the Blob Store holds: it counts it as downloaded, adds no
\* bytes and does not call downloadOne for it; every other batch, and every
\* batch under forceRefresh, is passed to downloadOne.
C23_SkipsWhatIsStored ==
    (last.op = "download_all_batches" /\ last.raised = "") =>
        \A i \in NamedOnce :
            IF ~last.force_refresh /\ Durable(Listed[i].batch_id)
            THEN /\ Skipped(Listed[i].batch_id)
                 /\ ~PassedOn(Listed[i].batch_id)
                 /\ Snapshots[i + 1].arg.downloaded_files =
                        Snapshots[i].arg.downloaded_files + 1
                 /\ Snapshots[i + 1].arg.downloaded_bytes =
                        Snapshots[i].arg.downloaded_bytes
            ELSE /\ PassedOn(Listed[i].batch_id)
                 /\ ~Skipped(Listed[i].batch_id)

(* ---- deleting an organization ---- *)
\* the last call was a deleteOrg during which a step failed: a blob or a
\* cache entry of the org was to be deleted and that store was down, or one
\* of the two record deletes found the Metadata Store down
OwnedBefore == Filter(last.before.batch_files, "org_code", last.org_code)
StepFailed ==
    /\ last.op = "delete_org_batches"
    /\ \/ /\ <<"delete_file", "">> \in last.before.down
          /\ \E i \in DOMAIN OwnedBefore : OwnedBefore[i].file_id # None
       \/ /\ cache_enabled
          /\ <<"get_batches_by_org_code", last.org_code>> \notin last.before.down
          /\ \E i \in DOMAIN OwnedBefore :
                /\ OwnedBefore[i].batch_id \in DOMAIN last.before.cache
                /\ <<"cache_unlink", OwnedBefore[i].batch_id>> \in last.before.down
       \/ <<"delete_batches_by_org_code", last.org_code>> \in last.before.down
       \/ <<"delete_org_code", last.org_code>> \in last.before.down

\* C24: a deleteOrg in which deleting a blob, deleting a cache entry, the
\* bulk delete of the Batch Records or the delete of the Organization Record
\* fails, fails with a StorageError and does not return true.
C24_FailedStepFailsDelete ==
    StepFailed => last.raised = "StorageError"

\* the last call repeated a deleteOrg; Had are the Batch Records the
\* organization had before the first of the two calls
Retried == last.op = "delete_org_batches" /\ last.arg # <<>>
Had == last.arg.batches
\* nothing of the organization is left
Clean ==
    /\ Filter(batch_files, "org_code", last.org_code) = <<>>
    /\ get_org_code(World, last.org_code) = None
    /\ \A i \in DOMAIN Had :
          /\ Had[i].batch_id \notin DOMAIN cache
          /\ Had[i].file_id # None => ~file_exists(World, Had[i].file_id[1])

\* C25: a deleteOrg repeated after a successful or partially failed
\* deleteOrg, with the stores available, succeeds and leaves no Batch
\* Record, Organization Record, blob or cache entry of the organization.
C25_DeleteIsSafeToRetry ==
    Retried => last.raised = "" /\ last.value = TRUE /\ Clean

(* ---- fetchMetadata: errors ---- *)
\* the Fetcher call of the last fetchMetadata raised OrgCodeNotFoundError
FetcherSaidNotFound ==
    /\ last.op = Fetch
    /\ Count(last.log, {"fetch_org_batches"}) = 1
    /\ fetch_org_batches(last.org_code, last.arg).raised = "OrgCodeNotFoundError"

\* an org code is well formed when it is 3 to 20 alphanumeric characters
WellFormed(org_code) ==
    /\ Len(OrgCodeChars[org_code]) \in 3..20
    /\ \A i \in 1..Len(OrgCodeChars[org_code]) : OrgCodeChars[org_code][i] \in Alnum

\* C26: a fetchMetadata with a malformed org code raises ValidationError
\* before any store or Fetcher call, and an OrgCodeNotFoundError of the
\* Fetcher reaches the caller as OrgCodeNotFoundError; in both cases the
\* Organization Records and Batch Records stay as they were.
C26_ErrorsPropagateUnchanged ==
    /\ (last.op = Fetch /\ ~WellFormed(last.org_code))
       => /\ last.raised = "ValidationError"
          /\ last.log = <<>>
          /\ StoresUntouched
    /\ FetcherSaidNotFound
       => /\ last.raised = "OrgCodeNotFoundError"
          /\ org_codes = last.before.org_codes
          /\ batch_files = last.before.batch_files

(* ---- the TTL cache disabled ---- *)
CacheEvents == {"save_to_cache", "cache_unlink"}
\* the tier the last downloadOne was served from
ServedFrom(tiers) ==
    \E k \in DOMAIN last.log : last.log[k].call = "served" /\ last.log[k].arg.tier \in tiers

\* C27: with the TTL cache disabled, cache get reports absent, no operation
\* changes the cache directory, and a downloadOne that returns is served by
\* the Blob Store or the network without a cache write or unlink.
C27_DisabledCacheIsInert ==
    (~cache_enabled /\ last.op # "")
    => /\ cache = last.before.cache
       /\ Count(last.log, CacheEvents) = 0
       /\ last.op = "get_from_cache" => last.value = None
       /\ (last.op = "download_batch_file" /\ last.raised = "")
          => ServedFrom({"gridfs", "network"})
\* with the cache disabled and b1's file left in the cache directory, b1 was
\* downloaded from the Blob Store
C27_Witness_LeftoverFileBypassed ==
    /\ ~cache_enabled
    /\ "b1" \in DOMAIN cache
    /\ last.op = "download_batch_file"
    /\ last.batch_id = "b1"
    /\ last.raised = ""
    /\ ServedFrom({"gridfs"})

(* ---- fetchMetadata on a miss ---- *)
\* the last call was a fetchMetadata that found no batch record of the
\* organization, or was told to refresh
Missed ==
    /\ last.op = Fetch
    /\ \/ last.force_refresh
       \/ Filter(last.before.batch_files, "org_code", last.org_code) = <<>>
\* what the remote answered to the listing of the last fetchMetadata
Remote == fetch_org_batches(last.org_code, last.arg)
RecordsOf(batch_id) == Filter(batch_files, "batch_id", batch_id)
OrgRecords == Filter(org_codes, "org_code", last.org_code)

\* C28: a fetchMetadata on a miss makes exactly one Fetcher call, the listing
\* of its org code; when the listing returns, the call returns one batch per
\* descriptor with the same ids in the same order, exactly one Organization
\* Record of the code exists, with batch_count the length of the remote list
\* and updated_at the time of the call, and every returned id that had no
\* Batch Record has one with file_id None.
C28_MissSyncsTheRemoteList ==
    Missed
    => /\ FetcherCalls(last.log) = 1
       /\ Did("fetch_org_batches", last.org_code)
       /\ Remote.raised = ""
          => /\ last.raised = ""
             /\ Len(last.value) = Len(Remote.value)
             /\ \A i \in 1..Len(Remote.value) :
                   last.value[i].batch_id = Remote.value[i].batch_id
             /\ Len(OrgRecords) = 1
             /\ OrgRecords[1].batch_count = Len(Remote.value)
             /\ OrgRecords[1].updated_at = last.at
             /\ \A i \in 1..Len(last.value) :
                   Filter(last.before.batch_files, "batch_id", last.value[i].batch_id) = <<>>
                   => /\ Len(RecordsOf(last.value[i].batch_id)) = 1
                      /\ RecordsOf(last.value[i].batch_id)[1].file_id = None
\* a refresh, later than the first listing, found the organization's record
\* and a record of b1, and the remote listed b1 and then b2
C28_Witness_RefreshAddsOne ==
    /\ Missed
    /\ last.force_refresh
    /\ last.at > 0
    /\ Remote.raised = ""
    /\ Remote.value = <<Descriptor("b1"), Descriptor("b2")>>
    /\ Filter(last.before.org_codes, "org_code", last.org_code) # <<>>
    /\ Filter(last.before.batch_files, "batch_id", "b1") # <<>>
    /\ Filter(last.before.batch_files, "batch_id", "b2") = <<>>
    /\ RecordsOf("b2") # <<>>

(* ---- reading from local storage ---- *)
\* the blob the record of a batch named before the last call, None when the
\* batch had no record, the record no file_id or GridFS no such file
BlobBefore(batch_id) ==
    LET recs == Filter(last.before.batch_files, "batch_id", batch_id) IN
    IF recs = <<>> THEN None
    ELSE IF recs[1].file_id = None THEN None
    ELSE IF recs[1].file_id[1] \notin DOMAIN last.before.fs THEN None
    ELSE Some(last.before.fs[recs[1].file_id[1]])
\* the cache with at most the entry of one batch removed
CacheWithout(batch_id) ==
    [k \in DOMAIN last.before.cache \ {batch_id} |-> last.before.cache[k]]

\* C29: get_batch_file_from_storage returns the cached bytes when the cache
\* holds an entry of the batch written less than CACHE_TTL before, else the
\* blob the Batch Record names, else None; it makes no Fetcher call, leaves
\* the Metadata Store and GridFS as they were, and leaves the cache as it was
\* except for removing the entry of the batch when that entry had expired.
C29_StorageReadIsReadOnly ==
    last.op = "get_batch_file_from_storage"
    => /\ last.raised = ""
       /\ last.value = IF cache_enabled /\ FreshBefore(last.batch_id)
                       THEN Some(last.before.cache[last.batch_id].data)
                       ELSE BlobBefore(last.batch_id)
       /\ FetcherCalls(last.log) = 0
       /\ org_codes = last.before.org_codes
       /\ batch_files = last.before.batch_files
       /\ fs = last.before.fs
       /\ IF cache_enabled /\ last.batch_id \in DOMAIN last.before.cache
             /\ ~FreshBefore(last.batch_id)
          THEN cache = CacheWithout(last.batch_id)
          ELSE cache = last.before.cache

(* ---- downloadOne: the write-through ---- *)
\* the position in the last call's trace of its one call of the name
PositionOf(name) == CHOOSE k \in DOMAIN last.log : last.log[k].call = name
\* the last call was a downloadOne that went to the network for a batch with
\* a Batch Record and returned
WroteThrough ==
    /\ last.op = Download
    /\ last.raised = ""
    /\ Filter(last.before.batch_files, "batch_id", last.batch_id) # <<>>
    /\ ServedFrom({"network"})

\* C30: a downloadOne that goes to the network for a batch with a Batch
\* Record and returns makes exactly one store_file, then updates the record
\* (file_id the new blob's id, file_size the length of the bytes,
\* downloaded_at the time of the call), then, with the cache enabled, saves
\* the bytes to the cache, and not before; with the cache disabled it saves
\* nothing; the bytes returned are the bytes the content download streamed.
C30_WriteThroughOrder ==
    WroteThrough
    => /\ Count(last.log, {"store_file"}) = 1
       /\ Count(last.log, {"update_batch_file"}) = 1
       /\ Count(last.log, {"save_to_cache"}) = (IF cache_enabled THEN 1 ELSE 0)
       /\ Count(last.log, {"download_batch_content"}) = 1
       /\ PositionOf("store_file") < PositionOf("update_batch_file")
       /\ cache_enabled => PositionOf("update_batch_file") < PositionOf("save_to_cache")
       /\ last.value = last.log[PositionOf("download_batch_content")].arg.data
       /\ LET record == RecordsOf(last.batch_id)[1]
              file_id == last.log[PositionOf("store_file")].arg
          IN  /\ record.file_id = Some(file_id)
              /\ file_id \notin DOMAIN last.before.fs
              /\ fs[file_id] = last.value
              /\ record.file_size = Len(last.value)
              /\ record.downloaded_at = Some(last.at)
       /\ cache_enabled => /\ last.batch_id \in DOMAIN cache
                           /\ cache[last.batch_id].data = last.value
\* with the cache enabled, two bytes were written through for b2 after the
\* clock had advanced
C30_Witness_TwoBytesWrittenThrough ==
    /\ WroteThrough
    /\ cache_enabled
    /\ last.batch_id = "b2"
    /\ last.value = <<8, 9>>
    /\ last.at > 0

(* ---- the observed state of a batch ---- *)
\* 0 Unknown (no record), 1 MetadataKnown (record without file_id),
\* 2 Downloaded (record with a file_id)
Observed(records, batch_id) ==
    LET recs == Filter(records, "batch_id", batch_id) IN
    IF recs = <<>> THEN 0
    ELSE IF recs[1].file_id = None THEN 1
    ELSE 2
Handlers == {Fetch, Download, "download_all_batches", "delete_org_batches"}

\* C31: over fetchMetadata, downloadOne, downloadAll and deleteOrg calls, the
\* observed state of every batch id only moves forward Unknown ->
\* MetadataKnown -> Downloaded, except that a deleteOrg may move it back to
\* Unknown; no call turns Downloaded into MetadataKnown.
C31_BatchStateOnlyAdvances ==
    last.op \in Handlers
    => \A b \in BatchIds :
          \/ Observed(batch_files, b) >= Observed(last.before.batch_files, b)
          \/ /\ last.op = "delete_org_batches"
             /\ Observed(batch_files, b) = 0
\* a forced refresh listed a batch that was Downloaded, and it still is
C31_Witness_RefreshKeepsDownloaded ==
    /\ last.op = Fetch
    /\ last.force_refresh
    /\ last.raised = ""
    /\ \E i \in 1..Len(last.value) :
          /\ Observed(last.before.batch_files, last.value[i].batch_id) = 2
          /\ Observed(batch_files, last.value[i].batch_id) = 2

(* ---- downloadOne: the Blob Store hit ---- *)
\* the last call was a downloadOne that found no cache entry written less
\* than CACHE_TTL before, and a record naming a blob GridFS holds
BlobHit ==
    /\ last.op = Download
    /\ ~(cache_enabled /\ FreshBefore(last.batch_id))
    /\ BlobBefore(last.batch_id) # None

\* C32: a downloadOne on a Blob Store hit returns the blob's bytes, makes no
\* Fetcher call, no store_file and no update_batch_file, leaves the Metadata
\* Store and GridFS as they were, and with the cache enabled leaves the bytes
\* in the cache as written at the time of the call (with the cache disabled
\* the cache stays as it was).
C32_BlobHitWritesThroughOnly ==
    BlobHit
    => /\ last.raised = ""
       /\ last.value = BlobBefore(last.batch_id)[1]
       /\ FetcherCalls(last.log) = 0
       /\ Count(last.log, {"store_file", "update_batch_file"}) = 0
       /\ org_codes = last.before.org_codes
       /\ batch_files = last.before.batch_files
       /\ fs = last.before.fs
       /\ IF cache_enabled
          THEN /\ last.batch_id \in DOMAIN cache
               /\ cache[last.batch_id] = [data |-> last.value, mtime |-> last.at]
          ELSE cache = last.before.cache

(* ---- fetchMetadata: the lookup fails ---- *)
\* the last call was a fetchMetadata without forceRefresh whose lookup of the
\* org's records found MongoDB down
LookupFailed ==
    /\ last.op = Fetch
    /\ ~last.force_refresh
    /\ <<"get_batches_by_org_code", last.org_code>> \in last.before.down

\* C33: a fetchMetadata without forceRefresh whose lookup of the org's batch
\* records finds the Metadata Store unavailable goes on to the Fetcher: the
\* first call it makes is fetch_org_batches for its org code, made once, and
\* when only the lookup failed and the listing returns, the call returns
\* the listing.
C33_FailedLookupIsAMiss ==
    LookupFailed
    => /\ last.log # <<>>
       /\ last.log[1].call = "fetch_org_batches"
       /\ last.log[1].arg = last.org_code
       /\ Count(last.log, {"fetch_org_batches"}) = 1
       /\ (last.before.down = LookupDown(last.org_code) /\ Remote.raised = "")
          => /\ last.raised = ""
             /\ Len(last.value) = Len(Remote.value)
\* the lookup failed for an organization that had a batch record, and the
\* call returned the remote list
C33_Witness_RecordsThereLookupDown ==
    /\ LookupFailed
    /\ last.before.down = LookupDown(last.org_code)
    /\ Filter(last.before.batch_files, "org_code", last.org_code) # <<>>
    /\ last.raised = ""
    /\ last.value # <<>>

(* ---- the request wrapper: errors that are not transient ---- *)
\* an HTTP error answer that is neither a rate limit nor a server error
ClientError(r) == r.kind = "http" /\ r.status \in 400..499 /\ r.status # 429

\* C34: a request answered with a 4xx other than 429 is not retried: the
\* wrapper makes exactly one request, waits for no backoff, and raises.
C34_ClientErrorNotRetried ==
    (fx.op = "make_request" /\ ClientError(fx.script[1]))
    => /\ fx.out.raised # ""
       /\ fx.out.requests = 1
       /\ fx.out.waits = <<>>

(* ---- blobs and the records that name them ---- *)
\* the Batch Records whose file_id names the blob
NamedBy(file_id) == {i \in 1..Len(batch_files) : batch_files[i].file_id = Some(file_id)}

\* C35: in every state, also after a call that failed partway on a store
\* fault, every blob in GridFS is named by the file_id of exactly one Batch
\* Record.
C35_NoOrphanedBlobs ==
    \A file_id \in DOMAIN fs : Cardinality(NamedBy(file_id)) = 1

(* ---- fetchMetadata: the records after a sync ---- *)
\* the last call was a fetchMetadata that listed the remote and returned
Synced ==
    /\ last.op = Fetch
    /\ last.raised = ""
    /\ Did("fetch_org_batches", last.org_code)
OwnedNow == Filter(batch_files, "org_code", last.org_code)
IdsOf(records) == {records[i].batch_id : i \in 1..Len(records)}

\* C36: after a fetchMetadata that listed the remote and returned, the batch
\* ids of the Batch Records of the organization are exactly the ids of the
\* remote list, and the Organization Record's batch_count is the number of
\* those records.
C36_RecordsMirrorTheRemoteList ==
    Synced
    => /\ IdsOf(OwnedNow) = IdsOf(Remote.value)
       /\ OrgRecords[1].batch_count = Len(OwnedNow)

(* ---- fetchMetadata: what the returned batches say ---- *)
\* C37: every batch a fetchMetadata returns, from the local records or from
\* a listing of the remote, has the file_id, file_size and downloaded_at of
\* the Batch Record stored for its id when the call returns.
C37_ReturnedBatchesMatchRecords ==
    (last.op = Fetch /\ last.raised = "")
    => \A i \in 1..Len(last.value) :
          /\ RecordsOf(last.value[i].batch_id) # <<>>
          /\ last.value[i].file_id = RecordsOf(last.value[i].batch_id)[1].file_id
          /\ last.value[i].file_size = RecordsOf(last.value[i].batch_id)[1].file_size
          /\ last.value[i].downloaded_at = RecordsOf(last.value[i].batch_id)[1].downloaded_at

(* ---- the TTL cache under concurrent callers ---- *)
\* the bytes of the completed writes: the file an earlier run left and what
\* the callers that finished _save_to_cache wrote
CompleteWrites(batch_id) ==
    {f[batch_id].data : f \in {g \in Leftover : batch_id \in DOMAIN g}}
    \cup {callers[c].file_data :
            c \in {d \in Callers : /\ callers[d].pc = "done"
                                   /\ callers[d].op = "save_to_cache"
                                   /\ callers[d].batch_id = batch_id}}
CacheReaders == {c \in Callers : callers[c].pc = "done" /\ callers[c].op = "get_from_cache"}

\* C38: under any interleaving of concurrent _get_from_cache and
\* _save_to_cache calls, every read that has finished raised nothing and
\* returned None or the whole bytes of a completed write, never empty bytes.
C38_CacheReadsAreAtomic ==
    \A c \in CacheReaders :
        /\ callers[c].raised = ""
        /\ \/ callers[c].value = None
           \/ /\ callers[c].value[1] # <<>>
              /\ callers[c].value[1] \in CompleteWrites(callers[c].batch_id)

(* ---- fetchMetadata after a partial sync ---- *)
\* the last call was a fetchMetadata without forceRefresh that followed a
\* sync of the same organization that had raised StorageError
AfterPartialSync ==
    /\ last.op = Fetch
    /\ last.prev.op = Fetch
    /\ last.prev.raised = "StorageError"
    /\ last.before.down = {}

\* C39: a fetchMetadata without forceRefresh that follows a sync that failed
\* on a store write, with the store answering and the remote list unchanged,
\* returns every batch of the remote list.
C39_RetryReturnsTheWholeList ==
    AfterPartialSync
    => /\ last.raised = ""
       /\ IdsOf(Remote.value) \subseteq IdsOf(last.value)

(* ---- fetchMetadata under concurrent callers ---- *)
\* what the remote answered to the listing of caller c
RemoteOf(c) == fetch_org_batches(callers[c].org_code, callers[c].script)
\* caller c has finished a fetch_batches_by_org_code that listed the remote
\* and found no Organization Record of its org code
StartedEmpty(c) ==
    /\ callers[c].pc = "done"
    /\ RemoteOf(c).raised = ""
    /\ Len(callers[c].value) <= Len(callers[c].batch_data_list)
    /\ callers[c].batch_data_list = RemoteOf(c).value
    /\ callers[c].org = None

\* C40: when two concurrent fetchMetadata calls for one org code both start
\* with no local metadata, both return the remote list: neither raises, and
\* each returns one batch per descriptor of its listing.
C40_RaceLoserDoesNotFail ==
    \A c \in Callers, d \in Callers :
        (/\ c # d
         /\ callers[c].org_code = callers[d].org_code
         /\ StartedEmpty(c)
         /\ StartedEmpty(d))
        => /\ callers[c].raised = ""
           /\ Len(callers[c].value) = Len(RemoteOf(c).value)

====
